---- MODULE Spec2Model ----
(***************************************************************************)
(* Model of the video pipeline: main() constructs the JobManager, which    *)
(* loads the configuration document and builds the jobs; JobManager::run   *)
(* drives one VideoPipelineEngine per job; the engine opens the session,   *)
(* builds the operation chain, pumps packets through decode -> chain ->    *)
(* encode and closes the session.  The program is single-threaded; an      *)
(* exception thrown anywhere unwinds to main(), which returns 1.           *)
(***************************************************************************)
EXTENDS Integers, Sequences, FiniteSets, TLC

VARIABLES
    jobs,         \* the vector<VideoJob> handed to JobManager::run
    jobIdx,       \* number of the job whose engine was constructed last (0: none yet)
    pc,           \* main: "construct", "buildJobs", "running" (inside JobManager::run), "exit0" / "exit1"
    call,         \* which call of VideoPipelineEngine::run is in progress (0: no engine yet)
    sub,          \* position inside processFrames: "prepare" or "loop"
    ctx,          \* VideoPipelineEngine::ctx_  (core::VideoContext)
    streams,      \* ctx_.inputFormat->streams: codec type of each input stream
    operations_,  \* VideoPipelineEngine::operations_
    nread,        \* packets av_read_frame has returned for the current job
    heap,         \* every handle ever allocated |-> number of times it was released
    warnings,     \* LOG_WARN lines of the current job
    log,          \* calls the current engine made: hooks and media collaborator
    trace,        \* engine states the current job entered, in order
    options,      \* JobManager::options_  (cli::ProgramOptions)
    config_,      \* JobManager::config_   (nlohmann::json)
    file,         \* the file ConfigLoader::loadJson was called on (NoFile: no call)
    calls,        \* the builders JobManager::buildJobs called, in call order
    prev,         \* the session as it was before the hook applied last
    avframe,      \* the AVFrame a frame hook is applied to
    prevFrame,    \* the AVFrame as it was before the hook applied last
    io,           \* calls the hooks of the current engine made to their collaborators
    millis,       \* the argument Timecode::toString is called with
    timecode      \* what Timecode::toString returned (<<>>: not called)

clockVars == <<millis, timecode>>
mainVars == <<options, config_, file, calls, clockVars>>
hookVars == <<prev, avframe, prevFrame, io>>

vars == <<jobs, jobIdx, pc, call, sub, ctx, streams, operations_, nread, heap, warnings, log, trace,
          mainVars, hookVars>>

----------------------------------------------------------------------------
(* Bounds of the model *)

MaxOps == 3            \* descriptors of the job (single-job specification)
MaxPackets == 2        \* packets of the input (single-job specification)
MaxJobs == 2           \* jobs of a batch (batch specification)
MaxBatchOps == 1       \* descriptors of all jobs of a batch together
MaxBatchPackets == 1   \* packets of each input (batch specification)

(* Program constants *)

NoStream == -1               \* VideoContext stream index initialiser
DefaultSampleRate == 48000
DefaultChannels == 2
DummyAudioBytes == 1024      \* TtsClient::synthesize stub payload size
DecodeError == -1            \* any negative return of decodeFrame
DecodeOk == 0

NULL == [job |-> 0, res |-> "nullptr"]
Handle(j, r) == [job |-> j, res |-> r]

----------------------------------------------------------------------------
(* Data model *)

RecognizedTypes == {"subtitles_translate", "subtitles_remove", "watermark_remove", "voiceover"}

\* nlohmann::json::value(key, default) on an object
Value(params, key, default) == IF key \in DOMAIN params THEN params[key] ELSE default

\* core::VideoContext as default-initialised
FreshContext ==
    [ inputFormat |-> NULL, videoDecoder |-> NULL, videoEncoder |-> NULL, outputFormat |-> NULL,
      videoStreamIndex |-> NoStream, audioStreamIndex |-> NoStream, subtitleStreamIndex |-> NoStream,
      subtitles |-> [cues |-> <<>>, language |-> ""],
      generatedVoiceover |-> [bytes |-> 0, sampleRate |-> DefaultSampleRate, channels |-> DefaultChannels] ]

VideoJob(inputPath, outputPath, ops) == [input |-> inputPath, output |-> outputPath, operations |-> ops]

Ev(e, o, p, s) == [ev |-> e, op |-> o, pkt |-> p, stream |-> s]

\* the pixel positions of a picture of the given size
Pixels(width, height) == (0..(width - 1)) \X (0..(height - 1))

\* an AVFrame as decoded: every pixel as the source has it
AVFrame(width, height) ==
    [width |-> width, height |-> height, data |-> [p \in Pixels(width, height) |-> "source"]]

----------------------------------------------------------------------------
(* nlohmann::json (the bundled implementation): a value is tagged with the  *)
(* alternative its variant holds                                            *)

JNull == [t |-> "null"]
JBool(b) == [t |-> "boolean", b |-> b]
JNum(n) == [t |-> "number", n |-> n]
JStr(s) == [t |-> "string", s |-> s]
JArr(a) == [t |-> "array", a |-> a]
JObj(o) == [t |-> "object", o |-> o]

is_object(j) == j.t = "object"
is_array(j) == j.t = "array"
is_string(j) == j.t = "string"

contains(j, key) == is_object(j) /\ key \in DOMAIN j.o

\* at(key) returns the member, and throws on a value that is no object or has no such member
AtThrows(j, key) == ~is_object(j) \/ key \notin DOMAIN j.o
at(j, key) == j.o[key]

\* begin() / end() throw "not an array" on anything but an array
IterThrows(j) == ~is_array(j)

\* get<std::string>() throws "not a string" on anything but a string
GetStringThrows(j) == ~is_string(j)
get_string(j) == j.s

\* value(key, default) for a string default: the default where contains(key) is
\* false, at(key).get<std::string>() otherwise
ValueThrows(j, key) == contains(j, key) /\ GetStringThrows(at(j, key))
value(j, key, default) == IF ~contains(j, key) THEN default ELSE get_string(at(j, key))

\* operator[](key) followed by an assignment: a value that is no object becomes one
SetMember(j, key, v) ==
    LET o == IF is_object(j) THEN j.o ELSE <<>>
    IN  JObj([k \in DOMAIN o \cup {key} |-> IF k = key THEN v ELSE o[k]])

\* the parameter bag an operation reads: the members of an object by key, the
\* elements of an array by position, a scalar by its value; a null has no members
RECURSIVE Plain(_)
Plain(j) ==
    CASE j.t = "object"  -> [k \in DOMAIN j.o |-> Plain(j.o[k])]
      [] j.t = "array"   -> [i \in DOMAIN j.a |-> Plain(j.a[i])]
      [] j.t = "string"  -> j.s
      [] j.t = "number"  -> j.n
      [] j.t = "boolean" -> j.b
      [] j.t = "null"    -> <<>>

\* std::optional<std::string>
NoOpt == [has |-> FALSE]
Some(v) == [has |-> TRUE, v |-> v]
value_or(o, default) == IF o.has THEN o.v ELSE default

\* cli::ProgramOptions
ProgramOptions(ops, in, out, cfg, src, dst, tts, url, key) ==
    [ operations |-> ops, input |-> in, output |-> out, configPath |-> cfg,
      subtitleSrcLang |-> src, subtitleDstLang |-> dst,
      ttsLang |-> tts, ttsBaseUrl |-> url, ttsApiKey |-> key ]

NoFile == [readable |-> FALSE, text |-> <<>>]
File(text) == [readable |-> TRUE, text |-> text]

----------------------------------------------------------------------------
(* Operations: constructors and the three hooks *)

SubtitleTranslateOperation(params) ==
    [ kind |-> "SubtitleTranslate",
      srcLang |-> Value(params, "src_lang", "auto"),
      dstLang |-> Value(params, "dst_lang", "auto") ]

SubtitleRemoveOperation == [kind |-> "SubtitleRemove"]

WatermarkRegion(r) ==
    [ x |-> Value(r, "x", 0), y |-> Value(r, "y", 0),
      width |-> Value(r, "width", 0), height |-> Value(r, "height", 0),
      method |-> Value(r, "method", "blur") ]

WatermarkRemoveOperation(params) ==
    [ kind |-> "WatermarkRemove",
      regions |-> IF "regions" \in DOMAIN params
                  THEN [i \in DOMAIN params["regions"] |-> WatermarkRegion(params["regions"][i])]
                  ELSE <<>> ]

VoiceoverReplaceOperation(params) ==
    [ kind |-> "VoiceoverReplace",
      lang |-> Value(params, "lang", "auto"),
      baseUrl |-> Value(params, "base_url", ""),
      apiKey |-> Value(params, "api_key", "") ]

\* a reader that yields the stub track whether or not a subtitle stream is assigned
readSubtitlesAnyStream(c) ==
    [ cues |-> << [start_ms |-> 0, end_ms |-> 2000, text |-> "Hello"],
                  [start_ms |-> 2500, end_ms |-> 4000, text |-> "World"] >>,
      language |-> "und" ]

\* SubtitleAdapter::readSubtitles (stub track when a subtitle stream is assigned)
readSubtitles(c) ==
    IF c.subtitleStreamIndex < 0
    THEN [cues |-> <<>>, language |-> ""]
    ELSE [ cues |-> << [start_ms |-> 0, end_ms |-> 2000, text |-> "Hello"],
                       [start_ms |-> 2500, end_ms |-> 4000, text |-> "World"] >>,
           language |-> "und" ]

\* SubtitleAdapter::removeSubtitleStream
removeSubtitleStream(c) == [c EXCEPT !.subtitleStreamIndex = NoStream]

\* StubSubtitleTranslator::translate
translate(text, src, dst) == "[" \o dst \o "] " \o text

\* TtsClient::synthesize (stub: a fixed payload, whatever the track and language)
synthesize(subs, lang) ==
    [bytes |-> DummyAudioBytes, sampleRate |-> DefaultSampleRate, channels |-> DefaultChannels]

\* a prepare that translates the track the session holds, without reading
SubtitleTranslate_preparePresentTrack(op, c) ==
    LET track == c.subtitles
        cues == [i \in DOMAIN track.cues |->
                    [track.cues[i] EXCEPT !.text = translate(@, op.srcLang, op.dstLang)]]
    IN  [c EXCEPT !.subtitles = [cues |-> cues, language |-> op.dstLang]]

SubtitleTranslate_prepare(op, c) ==
    LET track == readSubtitles(c)
        cues == [i \in DOMAIN track.cues |->
                    [track.cues[i] EXCEPT !.text = translate(@, op.srcLang, op.dstLang)]]
    IN  [c EXCEPT !.subtitles = [cues |-> cues, language |-> op.dstLang]]

\* a prepare that calls the synthesis and does not store what it returns
VoiceoverReplace_prepareDiscard(op, c) == c

\* a prepare that clears the cues and leaves the stream role as it is
SubtitleRemove_prepareKeepRole(c) == [c EXCEPT !.subtitles.cues = <<>>]

\* a prepare that detaches the stream and keeps the cues
SubtitleRemove_prepareKeepCues(c) == removeSubtitleStream(c)

SubtitleRemove_prepare(c) ==
    removeSubtitleStream([c EXCEPT !.subtitles.cues = <<>>, !.subtitleStreamIndex = NoStream])

VoiceoverReplace_prepare(op, c) ==
    [c EXCEPT !.generatedVoiceover = synthesize(c.subtitles, op.lang)]

\* IVideoOperation::prepare, dispatched on the dynamic type
prepare(op, c) ==
    CASE op.kind = "SubtitleTranslate" -> SubtitleTranslate_prepare(op, c)
      [] op.kind = "SubtitleRemove"    -> SubtitleRemove_prepare(c)
      [] op.kind = "WatermarkRemove"   -> c
      [] op.kind = "VoiceoverReplace"  -> VoiceoverReplace_prepare(op, c)

\* IVideoOperation::processFrame: no operation writes the session here; a
\* frame is its pts, its pixels are not part of the engine's state
processFrame(op, c, frame) == [ctx |-> c, frame |-> frame]

\* IVideoOperation::finalize: writeSubtitles and replaceAudio are stubs that
\* leave the session as it is
finalize(op, c) == c

\* a call a hook of operation number o makes to a collaborator
Call(fn, o, args, ret) == [fn |-> fn, op |-> o, args |-> args, ret |-> ret]

\* the collaborator calls of op->prepare(c), op being number o of the chain
prepareCalls(op, o, c) ==
    CASE op.kind = "SubtitleTranslate" ->
            LET track == readSubtitles(c)
            IN  <<Call("readSubtitles", o, [subtitleStreamIndex |-> c.subtitleStreamIndex], track)>>
                \o [i \in DOMAIN track.cues |->
                       Call("translate", o,
                            [text |-> track.cues[i].text, src |-> op.srcLang, dst |-> op.dstLang],
                            translate(track.cues[i].text, op.srcLang, op.dstLang))]
      [] op.kind = "SubtitleRemove" ->
            <<Call("removeSubtitleStream", o, <<>>, <<>>)>>
      [] op.kind = "WatermarkRemove" -> <<>>
      [] op.kind = "VoiceoverReplace" ->
            <<Call("synthesize", o, [subs |-> c.subtitles, lang |-> op.lang],
                   synthesize(c.subtitles, op.lang))>>

\* the collaborator calls of op->finalize(c)
finalizeCalls(op, o, c) ==
    CASE op.kind = "SubtitleTranslate" ->
            <<Call("writeSubtitles", o, [subs |-> c.subtitles], <<>>)>>
      [] op.kind = "SubtitleRemove" -> <<>>
      [] op.kind = "WatermarkRemove" -> <<>>
      [] op.kind = "VoiceoverReplace" ->
            <<Call("replaceAudio", o, [audio |-> c.generatedVoiceover], <<>>)>>

----------------------------------------------------------------------------
(* Media collaborator: FfmpegAdapter *)

StreamTypes == {"video", "audio", "subtitle"}

\* the role-assignment loop without the `< 0` tests: the last stream of a type wins
RECURSIVE AssignRolesLastWins(_, _, _)
AssignRolesLastWins(layout, i, c) ==
    IF i >= Len(layout) THEN c
    ELSE LET t == layout[i + 1]
             c1 == IF t = "video" THEN [c EXCEPT !.videoStreamIndex = i]
                   ELSE IF t = "audio" THEN [c EXCEPT !.audioStreamIndex = i]
                   ELSE IF t = "subtitle" THEN [c EXCEPT !.subtitleStreamIndex = i]
                   ELSE c
         IN  AssignRolesLastWins(layout, i + 1, c1)

\* The role-assignment loop of openInput over streams i .. nb_streams-1 (0-based)
RECURSIVE AssignRoles(_, _, _)
AssignRoles(layout, i, c) ==
    IF i >= Len(layout) THEN c
    ELSE LET t == layout[i + 1]
             c1 == IF t = "video" /\ c.videoStreamIndex < 0
                       THEN [c EXCEPT !.videoStreamIndex = i]
                   ELSE IF t = "audio" /\ c.audioStreamIndex < 0
                       THEN [c EXCEPT !.audioStreamIndex = i]
                   ELSE IF t = "subtitle" /\ c.subtitleStreamIndex < 0
                       THEN [c EXCEPT !.subtitleStreamIndex = i]
                   ELSE c
         IN  AssignRoles(layout, i + 1, c1)

\* openInput when avformat_open_input succeeded on an input with this layout
openInput(j, layout, c) == AssignRoles(layout, 0, [c EXCEPT !.inputFormat = Handle(j, "inputFormat")])

\* openOutput when avformat_alloc_output_context2 produced a context
openOutput(j, c) == [c EXCEPT !.outputFormat = Handle(j, "outputFormat")]

\* decodeFrame allocates the decoder on its first call
decodeFrame(j, c) ==
    IF c.videoDecoder = NULL THEN [c EXCEPT !.videoDecoder = Handle(j, "videoDecoder")] ELSE c

\* heap bookkeeping of the allocator: a fresh handle has been released 0 times
Alloc(h, x) == IF x \in DOMAIN h THEN h ELSE h @@ (x :> 0)
Free(h, x) == [h EXCEPT ![x] = @ + 1]

\* One `if (ptr) { free(ptr); ptr = nullptr; }` of close
CloseField(field, st) ==
    IF st.ctx[field] # NULL
    THEN [ctx |-> [st.ctx EXCEPT ![field] = NULL], heap |-> Free(st.heap, st.ctx[field])]
    ELSE st

\* FfmpegAdapter::close
close(c, h) ==
    CloseField("outputFormat",
        CloseField("inputFormat",
            CloseField("videoEncoder",
                CloseField("videoDecoder", [ctx |-> c, heap |-> h]))))

----------------------------------------------------------------------------
(* VideoPipelineEngine *)

\* The if / else-if chain of buildOperations for one descriptor
Construct(desc) ==
    IF desc.type = "subtitles_translate" THEN <<SubtitleTranslateOperation(desc.params)>>
    ELSE IF desc.type = "subtitles_remove" THEN <<SubtitleRemoveOperation>>
    ELSE IF desc.type = "watermark_remove" THEN <<WatermarkRemoveOperation(desc.params)>>
    ELSE IF desc.type = "voiceover" THEN <<VoiceoverReplaceOperation(desc.params)>>
    ELSE <<>>

\* buildOperations inserting each new operation at the front of the chain
RECURSIVE BuildLoopPrepend(_, _, _)
BuildLoopPrepend(descs, i, st) ==
    IF i > Len(descs) THEN st
    ELSE LET made == Construct(descs[i])
         IN  BuildLoopPrepend(descs, i + 1,
                 IF made # <<>>
                 THEN [st EXCEPT !.ops = made \o @]
                 ELSE [st EXCEPT !.warns = Append(@, descs[i].type)])

\* buildOperations giving up at the first descriptor of unknown type
RECURSIVE BuildLoopStopAtUnknown(_, _, _)
BuildLoopStopAtUnknown(descs, i, st) ==
    IF i > Len(descs) THEN st
    ELSE LET made == Construct(descs[i])
         IN  IF made # <<>>
             THEN BuildLoopStopAtUnknown(descs, i + 1, [st EXCEPT !.ops = @ \o made])
             ELSE [st EXCEPT !.warns = Append(@, descs[i].type)]

RECURSIVE BuildLoop(_, _, _)
BuildLoop(descs, i, st) ==
    IF i > Len(descs) THEN st
    ELSE LET made == Construct(descs[i])
         IN  BuildLoop(descs, i + 1,
                 IF made # <<>>
                 THEN [st EXCEPT !.ops = @ \o made]
                 ELSE [st EXCEPT !.warns = Append(@, descs[i].type)])

\* VideoPipelineEngine::buildOperations: the chain and the warnings it logs
buildOperations(descs) == BuildLoop(descs, 1, [ops |-> <<>>, warns |-> <<>>])

\* the prepare loop stopping one operation short of the end of the chain
RECURSIVE PrepareLoopOneShort(_, _, _)
PrepareLoopOneShort(ops, i, st) ==
    IF i >= Len(ops) THEN st
    ELSE PrepareLoopOneShort(ops, i + 1,
             [ctx |-> prepare(ops[i], st.ctx), log |-> Append(st.log, Ev("prepare", i, 0, NoStream))])

\* for (auto& op : operations_) op->prepare(ctx_);
RECURSIVE PrepareLoop(_, _, _)
PrepareLoop(ops, i, st) ==
    IF i > Len(ops) THEN st
    ELSE PrepareLoop(ops, i + 1,
             [ctx |-> prepare(ops[i], st.ctx), log |-> Append(st.log, Ev("prepare", i, 0, NoStream))])

\* for (auto& op : operations_) op->processFrame(ctx_, frame, pts);
RECURSIVE FrameLoop(_, _, _)
FrameLoop(ops, i, st) ==
    IF i > Len(ops) THEN st
    ELSE LET r == processFrame(ops[i], st.ctx, st.frame)
         IN  FrameLoop(ops, i + 1,
                 [ctx |-> r.ctx, frame |-> r.frame,
                  log |-> Append(st.log, Ev("processFrame", i, st.frame.pts, NoStream))])

\* the finalize loop walking the chain from its last operation to its first
RECURSIVE FinalizeLoopReversed(_, _, _)
FinalizeLoopReversed(ops, i, st) ==
    IF i > Len(ops) THEN st
    ELSE LET o == Len(ops) + 1 - i
         IN  FinalizeLoopReversed(ops, i + 1,
                 [ctx |-> finalize(ops[o], st.ctx), log |-> Append(st.log, Ev("finalize", o, 0, NoStream))])

\* for (auto& op : operations_) op->finalize(ctx_);
RECURSIVE FinalizeLoop(_, _, _)
FinalizeLoop(ops, i, st) ==
    IF i > Len(ops) THEN st
    ELSE FinalizeLoop(ops, i + 1,
             [ctx |-> finalize(ops[i], st.ctx), log |-> Append(st.log, Ev("finalize", i, 0, NoStream))])

\* the collaborator calls of the prepare loop from operation i on, in call order
RECURSIVE PrepareCalls(_, _, _)
PrepareCalls(ops, i, c) ==
    IF i > Len(ops) THEN <<>>
    ELSE prepareCalls(ops[i], i, c) \o PrepareCalls(ops, i + 1, prepare(ops[i], c))

\* the collaborator calls of the finalize loop from operation i on, in call order
RECURSIVE FinalizeCalls(_, _, _)
FinalizeCalls(ops, i, c) ==
    IF i > Len(ops) THEN <<>>
    ELSE finalizeCalls(ops[i], i, c) \o FinalizeCalls(ops, i + 1, finalize(ops[i], c))

\* the loop body handing the frame to the encoder before the chain has seen it
LoopBodyEncodeFirst(j, ops, k, si, ret, st) ==
    LET l1 == Append(st.log, Ev("read", 0, k, si))
    IN  IF si = st.ctx.videoStreamIndex
        THEN LET c1 == decodeFrame(j, st.ctx)
                 h1 == Alloc(st.heap, c1.videoDecoder)
                 l2 == Append(l1, Ev(IF ret >= 0 THEN "decode" ELSE "decodeFailed", 0, k, si))
             IN  IF ret >= 0
                 THEN LET f == FrameLoop(ops, 1, [ctx |-> c1, frame |-> [pts |-> k],
                                                  log |-> Append(l2, Ev("encode", 0, k, NoStream))])
                      IN  [ctx |-> f.ctx, heap |-> h1, log |-> f.log]
                 ELSE [ctx |-> c1, heap |-> h1, log |-> l2]
        ELSE IF si = st.ctx.audioStreamIndex
        THEN [st EXCEPT !.log = Append(l1, Ev("copy", 0, k, si))]
        ELSE [st EXCEPT !.log = l1]

\* the loop body without the test of what decodeFrame returned
LoopBodyIgnoreRet(j, ops, k, si, ret, st) ==
    LET l1 == Append(st.log, Ev("read", 0, k, si))
    IN  IF si = st.ctx.videoStreamIndex
        THEN LET c1 == decodeFrame(j, st.ctx)
                 h1 == Alloc(st.heap, c1.videoDecoder)
                 l2 == Append(l1, Ev(IF ret >= 0 THEN "decode" ELSE "decodeFailed", 0, k, si))
                 f == FrameLoop(ops, 1, [ctx |-> c1, frame |-> [pts |-> k], log |-> l2])
             IN  [ctx |-> f.ctx, heap |-> h1,
                  log |-> Append(f.log, Ev("encode", 0, f.frame.pts, NoStream))]
        ELSE IF si = st.ctx.audioStreamIndex
        THEN [st EXCEPT !.log = Append(l1, Ev("copy", 0, k, si))]
        ELSE [st EXCEPT !.log = l1]

\* the loop body copying every packet that is not of the video stream
LoopBodyCopyOthers(j, ops, k, si, ret, st) ==
    LET l1 == Append(st.log, Ev("read", 0, k, si))
    IN  IF si = st.ctx.videoStreamIndex
        THEN LET c1 == decodeFrame(j, st.ctx)
                 h1 == Alloc(st.heap, c1.videoDecoder)
                 l2 == Append(l1, Ev(IF ret >= 0 THEN "decode" ELSE "decodeFailed", 0, k, si))
             IN  IF ret >= 0
                 THEN LET f == FrameLoop(ops, 1, [ctx |-> c1, frame |-> [pts |-> k], log |-> l2])
                      IN  [ctx |-> f.ctx, heap |-> h1,
                           log |-> Append(f.log, Ev("encode", 0, f.frame.pts, NoStream))]
                 ELSE [ctx |-> c1, heap |-> h1, log |-> l2]
        ELSE [st EXCEPT !.log = Append(l1, Ev("copy", 0, k, si))]

\* the loop body dropping the packets of the audio stream with the others
LoopBodyDropAudio(j, ops, k, si, ret, st) ==
    LET l1 == Append(st.log, Ev("read", 0, k, si))
    IN  IF si = st.ctx.videoStreamIndex
        THEN LET c1 == decodeFrame(j, st.ctx)
                 h1 == Alloc(st.heap, c1.videoDecoder)
                 l2 == Append(l1, Ev(IF ret >= 0 THEN "decode" ELSE "decodeFailed", 0, k, si))
             IN  IF ret >= 0
                 THEN LET f == FrameLoop(ops, 1, [ctx |-> c1, frame |-> [pts |-> k], log |-> l2])
                      IN  [ctx |-> f.ctx, heap |-> h1,
                           log |-> Append(f.log, Ev("encode", 0, f.frame.pts, NoStream))]
                 ELSE [ctx |-> c1, heap |-> h1, log |-> l2]
        ELSE [st EXCEPT !.log = l1]

\* The body of the while loop of processFrames for packet number k of stream si,
\* ret being what decodeFrame returns should the packet be decoded
LoopBody(j, ops, k, si, ret, st) ==
    LET l1 == Append(st.log, Ev("read", 0, k, si))
    IN  IF si = st.ctx.videoStreamIndex
        THEN LET c1 == decodeFrame(j, st.ctx)
                 h1 == Alloc(st.heap, c1.videoDecoder)
                 l2 == Append(l1, Ev(IF ret >= 0 THEN "decode" ELSE "decodeFailed", 0, k, si))
             IN  IF ret >= 0
                 THEN LET f == FrameLoop(ops, 1, [ctx |-> c1, frame |-> [pts |-> k], log |-> l2])
                      IN  [ctx |-> f.ctx, heap |-> h1,
                           log |-> Append(f.log, Ev("encode", 0, f.frame.pts, NoStream))]
                 ELSE [ctx |-> c1, heap |-> h1, log |-> l2]
        ELSE IF si = st.ctx.audioStreamIndex
        THEN [st EXCEPT !.log = Append(l1, Ev("copy", 0, k, si))]
        ELSE [st EXCEPT !.log = l1]

\* the tail of processFrames running the finalize loop before flushing the encoder
DrainFinalizeFirst(ops, c, l) ==
    LET f == FinalizeLoop(ops, 1, [ctx |-> c, log |-> l])
    IN  [ctx |-> f.ctx, log |-> Append(f.log, Ev("flush", 0, 0, NoStream))]

\* The tail of processFrames once av_read_frame reports the end of the input
Drain(ops, c, l) == FinalizeLoop(ops, 1, [ctx |-> c, log |-> Append(l, Ev("flush", 0, 0, NoStream))])

\* run() calling processFrames a second time
runProcessTwice == <<"initialize", "buildOperations", "processFrames", "processFrames", "shutdown">>

\* VideoPipelineEngine::run: the calls it makes, in order
run == <<"initialize", "buildOperations", "processFrames", "shutdown">>

\* the engine state (4.5) the call number n of run() stands for; past the last
\* call run() has returned
EngineState(n) ==
    IF n \notin DOMAIN run THEN "Terminal"
    ELSE CASE run[n] = "initialize" -> "Initialize"
           [] run[n] = "buildOperations" -> "BuildOperations"
           [] run[n] = "processFrames" -> "ProcessFrames"
           [] run[n] = "shutdown" -> "Shutdown"

Current(name) == pc = "running" /\ call \in DOMAIN run /\ run[call] = name

\* the call in progress returns and run() goes on with its next statement
Advance ==
    /\ call' = call + 1
    /\ trace' = Append(trace, EngineState(call + 1))
    /\ sub' = "prepare"

\* an exception leaves run() and JobManager::run and is caught in main, which
\* returns 1; the engine is destroyed as it stands (VideoContext has no destructor)
Throw == pc' = "exit1" /\ UNCHANGED <<call, trace, sub>>

BetweenJobs == pc = "running" /\ call \in {0, Len(run) + 1}

----------------------------------------------------------------------------
(* The inputs of the model *)

\* stream layouts of the input files that can be opened
Layouts == { <<"video", "audio", "subtitle">>, <<"audio", "video", "video">>, <<"audio", "subtitle">> }

\* avformat_open_input: failure, or success on an input with some layout
OpenOutcomes == {[ok |-> FALSE, layout |-> <<>>]} \cup {[ok |-> TRUE, layout |-> l] : l \in Layouts}

OpTypes == RecognizedTypes \cup {"bogus"}

\* the parameter bag a config element of each type carries in the model
ParamsOf(t) ==
    CASE t = "subtitles_translate" -> [type |-> t, dst_lang |-> "uk"]
      [] t = "voiceover" -> [type |-> t, lang |-> "uk"]
      [] OTHER -> [type |-> t]

DescriptorSet == {[type |-> t, params |-> ParamsOf(t)] : t \in OpTypes}

SeqsUpTo(S, n) == UNION {[1..k -> S] : k \in 0..n}

JobsUpTo(n) == {VideoJob("in.mp4", "out.mp4", ops) : ops \in SeqsUpTo(DescriptorSet, n)}

RECURSIVE TotalOps(_, _)
TotalOps(b, i) == IF i > Len(b) THEN 0 ELSE Len(b[i].operations) + TotalOps(b, i + 1)

Batches == {b \in SeqsUpTo(JobsUpTo(MaxBatchOps), MaxJobs) : TotalOps(b, 1) <= MaxBatchOps}

----------------------------------------------------------------------------
(* Actions *)

\* a loop that runs every job on one engine: the session of the job before stays
NextJobSameEngine ==
    /\ BetweenJobs
    /\ jobIdx < Len(jobs)
    /\ jobIdx' = jobIdx + 1
    /\ call' = 1
    /\ trace' = <<EngineState(1)>>
    /\ sub' = "prepare"
    /\ streams' = <<>>
    /\ operations_' = <<>>
    /\ nread' = 0
    /\ warnings' = <<>>
    /\ log' = <<>>
    /\ io' = <<>>
    /\ UNCHANGED <<jobs, pc, heap, ctx>>
    /\ UNCHANGED <<mainVars, prev, avframe, prevFrame>>

\* JobManager::run, one iteration of the loop up to engine.run(): a new engine
NextJob ==
    /\ BetweenJobs
    /\ jobIdx < Len(jobs)
    /\ jobIdx' = jobIdx + 1
    /\ call' = 1
    /\ trace' = <<EngineState(1)>>
    /\ sub' = "prepare"
    /\ ctx' = FreshContext
    /\ streams' = <<>>
    /\ operations_' = <<>>
    /\ nread' = 0
    /\ warnings' = <<>>
    /\ log' = <<>>
    /\ io' = <<>>
    /\ UNCHANGED <<jobs, pc, heap>>
    /\ UNCHANGED <<mainVars, prev, avframe, prevFrame>>

\* VideoPipelineEngine::initialize: openInput, then openOutput; either may
\* throw.  outcomes: what avformat_open_input may do with the input file
InitializeFrom(outcomes) ==
    /\ Current("initialize")
    /\ \E in \in outcomes, out \in BOOLEAN :
          IF ~in.ok
          THEN /\ out
               /\ Throw
               /\ UNCHANGED <<ctx, streams, heap>>
          ELSE LET c1 == openInput(jobIdx, in.layout, ctx)
                   h1 == Alloc(heap, c1.inputFormat)
               IN  /\ streams' = in.layout
                   /\ IF out
                      THEN LET c2 == openOutput(jobIdx, c1)
                           IN  /\ ctx' = c2
                               /\ heap' = Alloc(h1, c2.outputFormat)
                               /\ Advance
                               /\ UNCHANGED pc
                      ELSE /\ ctx' = c1
                           /\ heap' = h1
                           /\ Throw
    /\ UNCHANGED <<jobs, jobIdx, operations_, nread, warnings, log>>
    /\ UNCHANGED <<mainVars, hookVars>>

\* initialize on one of the input files of the single-job specification
Initialize == InitializeFrom(OpenOutcomes)

\* VideoPipelineEngine::buildOperations
BuildOperations ==
    /\ Current("buildOperations")
    /\ LET b == buildOperations(jobs[jobIdx].operations)
       IN  /\ operations_' = operations_ \o b.ops
           /\ warnings' = warnings \o b.warns
    /\ Advance
    /\ UNCHANGED <<jobs, jobIdx, pc, ctx, streams, nread, heap, log>>
    /\ UNCHANGED <<mainVars, hookVars>>

\* processFrames, the prepare loop
PreparePhase ==
    /\ Current("processFrames")
    /\ sub = "prepare"
    /\ LET r == PrepareLoop(operations_, 1, [ctx |-> ctx, log |-> log])
       IN  /\ ctx' = r.ctx
           /\ log' = r.log
    /\ io' = io \o PrepareCalls(operations_, 1, ctx)
    /\ sub' = "loop"
    /\ UNCHANGED <<jobs, jobIdx, pc, call, streams, operations_, nread, heap, warnings, trace>>
    /\ UNCHANGED <<mainVars, prev, avframe, prevFrame>>

\* processFrames, one iteration of the while loop: av_read_frame returned a packet
ReadPacket(maxp) ==
    /\ Current("processFrames")
    /\ sub = "loop"
    /\ nread < maxp
    /\ \E si \in 0..(Len(streams) - 1), ret \in {DecodeError, DecodeOk} :
          /\ si # ctx.videoStreamIndex => ret = DecodeOk
          /\ LET r == LoopBody(jobIdx, operations_, nread + 1, si, ret,
                               [ctx |-> ctx, heap |-> heap, log |-> log])
             IN  /\ ctx' = r.ctx
                 /\ heap' = r.heap
                 /\ log' = r.log
    /\ nread' = nread + 1
    /\ UNCHANGED <<jobs, jobIdx, pc, call, sub, streams, operations_, warnings, trace>>
    /\ UNCHANGED <<mainVars, hookVars>>

\* a read loop that does not leave when av_read_frame reports the end of the input
EndOfInputIgnored ==
    /\ Current("processFrames")
    /\ sub = "loop"
    /\ UNCHANGED vars

\* processFrames, av_read_frame < 0: flushEncoder, the finalize loop, return
EndOfInput ==
    /\ Current("processFrames")
    /\ sub = "loop"
    /\ LET r == Drain(operations_, ctx, log)
       IN  /\ ctx' = r.ctx
           /\ log' = r.log
    /\ io' = io \o FinalizeCalls(operations_, 1, ctx)
    /\ Advance
    /\ UNCHANGED <<jobs, jobIdx, pc, streams, operations_, nread, heap, warnings>>
    /\ UNCHANGED <<mainVars, prev, avframe, prevFrame>>

\* VideoPipelineEngine::shutdown
Shutdown ==
    /\ Current("shutdown")
    /\ LET r == close(ctx, heap)
       IN  /\ ctx' = r.ctx
           /\ heap' = r.heap
    /\ Advance
    /\ UNCHANGED <<jobs, jobIdx, pc, streams, operations_, nread, warnings, log>>
    /\ UNCHANGED <<mainVars, hookVars>>

\* JobManager::run returns after the last job, main returns 0
RunReturns ==
    /\ BetweenJobs
    /\ jobIdx = Len(jobs)
    /\ pc' = "exit0"
    /\ UNCHANGED <<jobs, jobIdx, call, sub, ctx, streams, operations_, nread, heap, warnings, log, trace>>
    /\ UNCHANGED <<mainVars, hookVars>>

InitEngine ==
    /\ jobIdx = 0
    /\ pc = "running"
    /\ call = 0
    /\ sub = "prepare"
    /\ ctx = FreshContext
    /\ streams = <<>>
    /\ operations_ = <<>>
    /\ nread = 0
    /\ heap = <<>>
    /\ warnings = <<>>
    /\ log = <<>>
    /\ trace = <<>>

\* main as it has parsed the command line; nothing is loaded or built
InitMain ==
    /\ config_ = JNull
    /\ file = NoFile
    /\ calls = <<>>
    /\ millis = 0
    /\ timecode = <<>>

\* no hook is applied outside the engine
InitIdle ==
    /\ prev = FreshContext
    /\ avframe = AVFrame(0, 0)
    /\ prevFrame = AVFrame(0, 0)
    /\ io = <<>>

\* the jobs are handed to JobManager::run as they are: a command line without
\* a config path, nothing loaded
InitHanded ==
    /\ options = ProgramOptions(<<>>, "in.mp4", "out.mp4", NoOpt, NoOpt, NoOpt, NoOpt, NoOpt, NoOpt)
    /\ InitMain
    /\ InitIdle

\* one job, as main hands it to JobManager::run
Init == jobs \in {<<j>> : j \in JobsUpTo(MaxOps)} /\ InitEngine /\ InitHanded

Next ==
    \/ NextJob
    \/ Initialize
    \/ BuildOperations
    \/ PreparePhase
    \/ ReadPacket(MaxPackets)
    \/ EndOfInput
    \/ Shutdown
    \/ RunReturns

Spec == Init /\ [][Next]_vars

\* the single-job program when every call it makes returns: the program is one
\* thread, so as long as it has a next step it takes it
SpecLive == Spec /\ WF_vars(Next)

\* a batch of jobs
InitBatch == jobs \in Batches /\ InitEngine /\ InitHanded

NextBatch ==
    \/ NextJob
    \/ Initialize
    \/ BuildOperations
    \/ PreparePhase
    \/ ReadPacket(MaxBatchPackets)
    \/ EndOfInput
    \/ Shutdown
    \/ RunReturns

SpecBatch == InitBatch /\ [][NextBatch]_vars

----------------------------------------------------------------------------
(* nlohmann::json::parse: the recursive-descent parser of the bundled       *)
(* implementation.  A text is a sequence of characters, pos the index of    *)
(* the next one (from 1); a parser function returns the value and the       *)
(* position behind it, or Threw.                                            *)

Whitespace == {" ", "\t", "\n", "\r"}
Digits == <<"0", "1", "2", "3", "4", "5", "6", "7", "8", "9">>
IsDigit(c) == \E i \in DOMAIN Digits : Digits[i] = c
DigitValue(c) == (CHOOSE i \in DOMAIN Digits : Digits[i] = c) - 1

Threw == [ok |-> FALSE]
Parsed(v, pos) == [ok |-> TRUE, val |-> v, pos |-> pos]

RECURSIVE skip_ws(_, _)
skip_ws(s, pos) == IF pos <= Len(s) /\ s[pos] \in Whitespace THEN skip_ws(s, pos + 1) ELSE pos

\* the characters an escape sequence stands for (the backspace is written "\\b")
Escapes == [c \in {"\"", "\\", "/", "b", "f", "n", "r", "t"} |->
               CASE c = "b" -> "\\b" [] c = "f" -> "\f" [] c = "n" -> "\n"
                 [] c = "r" -> "\r" [] c = "t" -> "\t" [] OTHER -> c]

\* the while loop of parse_string: the end of the text ends the string as a quote does
RECURSIVE StringLoop(_, _, _)
StringLoop(s, pos, out) ==
    IF pos > Len(s) THEN Parsed(JStr(out), pos)
    ELSE IF s[pos] = "\"" THEN Parsed(JStr(out), pos + 1)
    ELSE IF s[pos] = "\\"
         THEN IF pos + 1 > Len(s) \/ s[pos + 1] \notin DOMAIN Escapes
              THEN Threw
              ELSE StringLoop(s, pos + 2, out \o Escapes[s[pos + 1]])
    ELSE StringLoop(s, pos + 1, out \o s[pos])

parse_string(s, pos) ==
    IF pos > Len(s) \/ s[pos] # "\"" THEN Threw ELSE StringLoop(s, pos + 1, "")

\* s.compare(pos, n, word) == 0
Compare(s, pos, word) ==
    /\ pos + Len(word) - 1 <= Len(s)
    /\ \A i \in DOMAIN word : s[pos + i - 1] = word[i]

parse_literal(s, pos) ==
    IF Compare(s, pos, <<"t", "r", "u", "e">>) THEN Parsed(JBool(TRUE), pos + 4)
    ELSE IF Compare(s, pos, <<"f", "a", "l", "s", "e">>) THEN Parsed(JBool(FALSE), pos + 5)
    ELSE IF Compare(s, pos, <<"n", "u", "l", "l">>) THEN Parsed(JNull, pos + 4)
    ELSE Threw

RECURSIVE DigitsEnd(_, _)
DigitsEnd(s, pos) == IF pos <= Len(s) /\ IsDigit(s[pos]) THEN DigitsEnd(s, pos + 1) ELSE pos

RECURSIVE Decimal(_, _, _)
Decimal(s, from, to) ==
    IF to < from THEN 0 ELSE 10 * Decimal(s, from, to - 1) + DigitValue(s[to])

\* parse_number: std::stod throws on a lexeme without a digit; a lexeme with
\* fraction digits keeps them beside its integer part
parse_number(s, pos) ==
    LET p1 == IF s[pos] = "-" THEN pos + 1 ELSE pos
        p2 == DigitsEnd(s, p1)
        dot == p2 <= Len(s) /\ s[p2] = "."
        p3 == IF dot THEN DigitsEnd(s, p2 + 1) ELSE p2
        n == Decimal(s, p1, p2 - 1)
    IN  IF p2 = p1 /\ (~dot \/ p3 = p2 + 1) THEN Threw
        ELSE IF dot /\ p3 > p2 + 1
             THEN Parsed([t |-> "number", n |-> n, frac |-> SubSeq(s, p2 + 1, p3 - 1),
                          neg |-> p1 > pos], p3)
        ELSE Parsed(JNum(IF p1 > pos THEN -n ELSE n), p3)

RECURSIVE parse_value(_, _), ObjectLoop(_, _, _), ArrayLoop(_, _, _)

\* the while (true) of parse_object
ObjectLoop(s, pos, obj) ==
    LET key == parse_string(s, skip_ws(s, pos))
    IN  IF ~key.ok THEN Threw
        ELSE LET p1 == skip_ws(s, key.pos)
             IN  IF p1 > Len(s) \/ s[p1] # ":" THEN Threw
                 ELSE LET v == parse_value(s, p1 + 1)
                      IN  IF ~v.ok THEN Threw
                          ELSE LET o2 == SetMember(JObj(obj), get_string(key.val), v.val).o
                                   p2 == skip_ws(s, v.pos)
                               IN  IF p2 > Len(s) THEN Threw
                                   ELSE IF s[p2] = "}" THEN Parsed(JObj(o2), p2 + 1)
                                   ELSE IF s[p2] = "," THEN ObjectLoop(s, p2 + 1, o2)
                                   ELSE Threw

parse_object(s, pos) ==
    LET p == skip_ws(s, pos + 1)
    IN  IF p > Len(s) THEN Threw
        ELSE IF s[p] = "}" THEN Parsed(JObj(<<>>), p + 1)
        ELSE ObjectLoop(s, p, <<>>)

\* the while (true) of parse_array
ArrayLoop(s, pos, arr) ==
    LET v == parse_value(s, pos)
    IN  IF ~v.ok THEN Threw
        ELSE LET a2 == Append(arr, v.val)
                 p2 == skip_ws(s, v.pos)
             IN  IF p2 > Len(s) THEN Threw
                 ELSE IF s[p2] = "]" THEN Parsed(JArr(a2), p2 + 1)
                 ELSE IF s[p2] = "," THEN ArrayLoop(s, p2 + 1, a2)
                 ELSE Threw

parse_array(s, pos) ==
    LET p == skip_ws(s, pos + 1)
    IN  IF p > Len(s) THEN Threw
        ELSE IF s[p] = "]" THEN Parsed(JArr(<<>>), p + 1)
        ELSE ArrayLoop(s, p, <<>>)

parse_value(s, pos) ==
    LET p == skip_ws(s, pos)
    IN  IF p > Len(s) THEN Threw
        ELSE IF s[p] = "{" THEN parse_object(s, p)
        ELSE IF s[p] = "[" THEN parse_array(s, p)
        ELSE IF s[p] = "\"" THEN parse_string(s, p)
        ELSE IF s[p] \in {"t", "f", "n"} THEN parse_literal(s, p)
        ELSE parse_number(s, p)

\* json::parse: one value; what follows the value is not looked at
parse(text) == parse_value(text, skip_ws(text, 1))

\* adapters::ConfigLoader::loadJson
loadJson(f) == IF ~f.readable THEN Threw ELSE parse(f.text)

----------------------------------------------------------------------------
(* JobManager: building the jobs *)

\* core::OperationDescriptor{type, params}; the engine reads params as a bag
OperationDescriptor(type, params) == [type |-> type, params |-> Plain(params)]

\* params that carry a member only where the command line gave its flag
CliParamsFlagsOnly(op, o) ==
    LET Put(j, key, flag) == IF flag.has THEN SetMember(j, key, JStr(flag.v)) ELSE j
    IN  IF op = "subtitles_translate"
        THEN Put(Put(JNull, "src_lang", o.subtitleSrcLang), "dst_lang", o.subtitleDstLang)
        ELSE IF op = "voiceover"
        THEN Put(Put(Put(JNull, "lang", o.ttsLang), "base_url", o.ttsBaseUrl),
                 "api_key", o.ttsApiKey)
        ELSE JNull

\* buildJobFromCli, the body of the loop: the params of one operation name
CliParams(op, o) ==
    IF op = "subtitles_translate"
    THEN SetMember(SetMember(JNull, "src_lang", JStr(value_or(o.subtitleSrcLang, "auto"))),
                   "dst_lang", JStr(value_or(o.subtitleDstLang, "auto")))
    ELSE IF op = "voiceover"
    THEN SetMember(SetMember(SetMember(JNull, "lang", JStr(value_or(o.ttsLang, "auto"))),
                             "base_url", JStr(value_or(o.ttsBaseUrl, ""))),
                   "api_key", JStr(value_or(o.ttsApiKey, "")))
    ELSE JNull

\* JobManager::buildJobFromCli
buildJobFromCli(o) ==
    VideoJob(o.input, o.output,
             [i \in DOMAIN o.operations |->
                 OperationDescriptor(o.operations[i], CliParams(o.operations[i], o))])

\* a loop that keeps of each element its "type" alone
RECURSIVE OpsLoopTypeOnly(_, _, _)
OpsLoopTypeOnly(arr, i, ops) ==
    IF i > Len(arr) THEN [ok |-> TRUE, ops |-> ops]
    ELSE LET op == arr[i]
         IN  IF AtThrows(op, "type") THEN Threw
             ELSE IF GetStringThrows(at(op, "type")) THEN Threw
             ELSE OpsLoopTypeOnly(arr, i + 1,
                      Append(ops, OperationDescriptor(get_string(at(op, "type")),
                                                      SetMember(JNull, "type", at(op, "type")))))

\* a loop that passes over an element without "type" and goes on
RECURSIVE OpsLoopSkipTypeless(_, _, _)
OpsLoopSkipTypeless(arr, i, ops) ==
    IF i > Len(arr) THEN [ok |-> TRUE, ops |-> ops]
    ELSE LET op == arr[i]
         IN  IF AtThrows(op, "type") THEN OpsLoopSkipTypeless(arr, i + 1, ops)
             ELSE IF GetStringThrows(at(op, "type")) THEN Threw
             ELSE OpsLoopSkipTypeless(arr, i + 1,
                      Append(ops, OperationDescriptor(get_string(at(op, "type")), op)))

\* buildJobFromConfig, the loop over the "operations" array
RECURSIVE OpsLoop(_, _, _)
OpsLoop(arr, i, ops) ==
    IF i > Len(arr) THEN [ok |-> TRUE, ops |-> ops]
    ELSE LET op == arr[i]
         IN  IF AtThrows(op, "type") THEN Threw
             ELSE IF GetStringThrows(at(op, "type")) THEN Threw
             ELSE OpsLoop(arr, i + 1,
                          Append(ops, OperationDescriptor(get_string(at(op, "type")), op)))

\* JobManager::buildJobFromConfig
buildJobFromConfig(jobCfg, o) ==
    LET r == IF contains(jobCfg, "operations")
             THEN IF IterThrows(at(jobCfg, "operations")) THEN Threw
                  ELSE OpsLoop(at(jobCfg, "operations").a, 1, <<>>)
             ELSE [ok |-> TRUE, ops |-> <<>>]
    IN  IF ~r.ok THEN Threw
        ELSE IF ValueThrows(jobCfg, "input") \/ ValueThrows(jobCfg, "output") THEN Threw
        ELSE [ok |-> TRUE,
              job |-> VideoJob(value(jobCfg, "input", o.input),
                               value(jobCfg, "output", o.output), r.ops)]

\* a loop that puts each job in front of the ones built before it
RECURSIVE JobsLoopPrepend(_, _, _, _)
JobsLoopPrepend(arr, i, o, st) ==
    IF i > Len(arr) THEN [ok |-> TRUE, jobs |-> st.jobs, calls |-> st.calls]
    ELSE LET r == buildJobFromConfig(arr[i], o)
             c == Append(st.calls, "buildJobFromConfig")
         IN  IF ~r.ok THEN [ok |-> FALSE, jobs |-> <<>>, calls |-> c]
             ELSE JobsLoopPrepend(arr, i + 1, o, [jobs |-> <<r.job>> \o st.jobs, calls |-> c])

\* a loop that stops at the element it cannot build and returns the jobs built so far
RECURSIVE JobsLoopKeepBuilt(_, _, _, _)
JobsLoopKeepBuilt(arr, i, o, st) ==
    IF i > Len(arr) THEN [ok |-> TRUE, jobs |-> st.jobs, calls |-> st.calls]
    ELSE LET r == buildJobFromConfig(arr[i], o)
             c == Append(st.calls, "buildJobFromConfig")
         IN  IF ~r.ok THEN [ok |-> TRUE, jobs |-> st.jobs, calls |-> c]
             ELSE JobsLoopKeepBuilt(arr, i + 1, o, [jobs |-> Append(st.jobs, r.job), calls |-> c])

\* buildJobs, the loop over the "jobs" array
RECURSIVE JobsLoop(_, _, _, _)
JobsLoop(arr, i, o, st) ==
    IF i > Len(arr) THEN [ok |-> TRUE, jobs |-> st.jobs, calls |-> st.calls]
    ELSE LET r == buildJobFromConfig(arr[i], o)
             c == Append(st.calls, "buildJobFromConfig")
         IN  IF ~r.ok THEN [ok |-> FALSE, jobs |-> <<>>, calls |-> c]
             ELSE JobsLoop(arr, i + 1, o, [jobs |-> Append(st.jobs, r.job), calls |-> c])

\* buildJobs without the is_object test
buildJobsAnyDocument(o, cfg) ==
    IF o.configPath.has
    THEN IF contains(cfg, "jobs")
         THEN IF IterThrows(at(cfg, "jobs")) THEN [ok |-> FALSE, jobs |-> <<>>, calls |-> <<>>]
              ELSE JobsLoop(at(cfg, "jobs").a, 1, o, [jobs |-> <<>>, calls |-> <<>>])
         ELSE LET r == buildJobFromConfig(cfg, o)
              IN  IF r.ok THEN [ok |-> TRUE, jobs |-> <<r.job>>, calls |-> <<"buildJobFromConfig">>]
                  ELSE [ok |-> FALSE, jobs |-> <<>>, calls |-> <<"buildJobFromConfig">>]
    ELSE [ok |-> TRUE, jobs |-> <<buildJobFromCli(o)>>, calls |-> <<"buildJobFromCli">>]

\* buildJobs that builds from the document only where it lists "jobs"
buildJobsListsOnly(o, cfg) ==
    IF o.configPath.has /\ is_object(cfg) /\ contains(cfg, "jobs")
    THEN IF IterThrows(at(cfg, "jobs")) THEN [ok |-> FALSE, jobs |-> <<>>, calls |-> <<>>]
         ELSE JobsLoop(at(cfg, "jobs").a, 1, o, [jobs |-> <<>>, calls |-> <<>>])
    ELSE [ok |-> TRUE, jobs |-> <<buildJobFromCli(o)>>, calls |-> <<"buildJobFromCli">>]

\* JobManager::buildJobs: the jobs, or a throw, and the builders it called
buildJobs(o, cfg) ==
    IF o.configPath.has /\ is_object(cfg)
    THEN IF contains(cfg, "jobs")
         THEN IF IterThrows(at(cfg, "jobs")) THEN [ok |-> FALSE, jobs |-> <<>>, calls |-> <<>>]
              ELSE JobsLoop(at(cfg, "jobs").a, 1, o, [jobs |-> <<>>, calls |-> <<>>])
         ELSE LET r == buildJobFromConfig(cfg, o)
              IN  IF r.ok THEN [ok |-> TRUE, jobs |-> <<r.job>>, calls |-> <<"buildJobFromConfig">>]
                  ELSE [ok |-> FALSE, jobs |-> <<>>, calls |-> <<"buildJobFromConfig">>]
    ELSE [ok |-> TRUE, jobs |-> <<buildJobFromCli(o)>>, calls |-> <<"buildJobFromCli">>]

----------------------------------------------------------------------------
(* main up to JobManager::run *)

MaxText == 3           \* characters of an arbitrary config file
MaxMainPackets == 1    \* packets of each input (main specification)
MaxCliOps == 2         \* operation names on the command line
MaxCfgOps == 2         \* elements of the "operations" array of a job document
MaxCfgJobs == 2        \* elements of a "jobs" array
MaxCfgJobOps == 1      \* elements of the "operations" array of an element of "jobs"

\* the characters arbitrary files are made of
Alphabet == {"{", "}", "[", "]", "\"", ":", ",", "1", " "}

\* config files as they are written, character by character
Text(str) ==
    CASE str = "empty job"  -> <<"{", "}">>
      [] str = "no jobs"    -> <<"{", "\"", "j", "o", "b", "s", "\"", ":", "[", "]", "}">>
      [] str = "one job"    -> <<"{", "\"", "j", "o", "b", "s", "\"", ":", " ", "[", "{",
                                 "\"", "i", "n", "p", "u", "t", "\"", ":", "\"", "a", "\"",
                                 "}", "]", "}", "\n">>
      [] str = "operations" -> <<"{", "\"", "o", "p", "e", "r", "a", "t", "i", "o", "n", "s",
                                 "\"", ":", "[", "{", "\"", "t", "y", "p", "e", "\"", ":",
                                 "\"", "v", "o", "i", "c", "e", "o", "v", "e", "r", "\"",
                                 "}", ",", "{", "}", "]", "}">>
      [] str = "array"      -> <<"[", "{", "}", "]">>
      [] str = "batch"      -> <<"{", "\"", "j", "o", "b", "s", "\"", ":", "[", "{", "}", ",",
                                 "{", "}", ",", "{", "\"", "o", "p", "e", "r", "a", "t", "i",
                                 "o", "n", "s", "\"", ":", "[", "{", "}", "]", "}", "]", "}">>

WrittenTexts ==
    {Text(str) : str \in {"empty job", "no jobs", "one job", "operations", "array", "batch"}}

\* a written file cut short at any character
Truncations(text) == {SubSeq(text, 1, n) : n \in 0..Len(text)}

Files ==
    {NoFile} \cup {File(text) : text \in SeqsUpTo(Alphabet, MaxText)}
             \cup {File(text) : text \in UNION {Truncations(w) : w \in WrittenTexts}}

\* command lines of the main specification
MainOptions ==
    { ProgramOptions(ops, "cli_in.mp4", "cli_out.mp4", cfg, NoOpt, NoOpt, NoOpt, NoOpt, NoOpt) :
        ops \in {<<>>, <<"subtitles_remove">>}, cfg \in {NoOpt, Some("jobs.json")} }

\* a constructor that swallows the loader's exception and goes on without a document
LoadConfigSwallow ==
    /\ pc = "construct"
    /\ pc' = "buildJobs"
    /\ IF options.configPath.has
       THEN \E f \in Files :
               /\ file' = f
               /\ LET r == loadJson(f)
                  IN  config_' = IF r.ok THEN r.val ELSE config_
       ELSE UNCHANGED <<file, config_>>
    /\ UNCHANGED <<jobs, jobIdx, call, sub, ctx, streams, operations_, nread, heap, warnings,
                   log, trace, options, calls, clockVars, hookVars>>

\* JobManager::JobManager: loadConfig; a throw of the loader reaches main
LoadConfig ==
    /\ pc = "construct"
    /\ IF options.configPath.has
       THEN \E f \in Files :
               /\ file' = f
               /\ LET r == loadJson(f)
                  IN  IF r.ok
                      THEN config_' = r.val /\ pc' = "buildJobs"
                      ELSE config_' = config_ /\ pc' = "exit1"
       ELSE /\ pc' = "buildJobs"
            /\ UNCHANGED <<file, config_>>
    /\ UNCHANGED <<jobs, jobIdx, call, sub, ctx, streams, operations_, nread, heap, warnings,
                   log, trace, options, calls, clockVars, hookVars>>

\* manager.buildJobs(), handing the jobs to manager.run
BuildJobs ==
    /\ pc = "buildJobs"
    /\ LET r == buildJobs(options, config_)
       IN  /\ calls' = r.calls
           /\ IF r.ok
              THEN jobs' = r.jobs /\ pc' = "running"
              ELSE jobs' = jobs /\ pc' = "exit1"
    /\ UNCHANGED <<jobIdx, call, sub, ctx, streams, operations_, nread, heap, warnings,
                   log, trace, options, config_, file, clockVars, hookVars>>

InitLoad ==
    /\ options \in MainOptions
    /\ jobs = <<>>
    /\ jobIdx = 0
    /\ pc = "construct"
    /\ call = 0
    /\ sub = "prepare"
    /\ ctx = FreshContext
    /\ streams = <<>>
    /\ operations_ = <<>>
    /\ nread = 0
    /\ heap = <<>>
    /\ warnings = <<>>
    /\ log = <<>>
    /\ trace = <<>>
    /\ InitMain
    /\ InitIdle

NextLoad ==
    \/ LoadConfig
    \/ BuildJobs
    \/ NextJob
    \/ Initialize
    \/ BuildOperations
    \/ PreparePhase
    \/ ReadPacket(MaxMainPackets)
    \/ EndOfInput
    \/ Shutdown
    \/ RunReturns

SpecLoad == InitLoad /\ [][NextLoad]_vars

----------------------------------------------------------------------------
(* The job builder on its own: the manager as constructed, buildJobs called *)

\* operation names of the command lines
CliNames == {"subtitles_translate", "voiceover", "watermark_remove", "bogus"}

\* the flag groups a command line gives or leaves out
TtsFlags == { <<NoOpt, NoOpt, NoOpt>>, <<Some("uk"), NoOpt, NoOpt>>,
              <<Some("uk"), Some("http://tts"), Some("k")>> }

\* command lines without --config
CliOptions ==
    { ProgramOptions(ops, "cli_in.mp4", "cli_out.mp4", NoOpt, src, dst, tts[1], tts[2], tts[3]) :
        ops \in SeqsUpTo(CliNames, MaxCliOps), src \in {NoOpt, Some("en")},
        dst \in {NoOpt, Some("de")}, tts \in TtsFlags }

\* command lines with --config
ConfigOptions ==
    { ProgramOptions(ops, "cli_in.mp4", "cli_out.mp4", Some("jobs.json"),
                     NoOpt, Some("de"), NoOpt, NoOpt, NoOpt) :
        ops \in {<<>>, <<"subtitles_translate", "bogus">>} }

\* elements of an "operations" array: three as the document format has them,
\* one without "type", one whose "type" is no string, one that is no object
OpElements ==
    { JObj([type |-> JStr("subtitles_translate"), dst_lang |-> JStr("uk")]),
      JObj([type |-> JStr("watermark_remove"),
            regions |-> JArr(<< JObj([width |-> JNum(200), method |-> JStr("inpaint")]) >>)]),
      JObj([type |-> JStr("bogus")]),
      JObj([dst_lang |-> JStr("uk")]),
      JObj([type |-> JNum(1)]),
      JStr("voiceover") }

JobOpElements ==
    { JObj([type |-> JStr("voiceover"), lang |-> JStr("uk")]),
      JObj([lang |-> JStr("uk")]) }

\* job objects: each of "input", "output" and "operations" present or left out
JobObjects(elems, n) ==
    { JObj([k \in K |-> CASE k = "input" -> JStr("videos/demo.mp4")
                          [] k = "output" -> JStr("output/demo_uk.mp4")
                          [] k = "operations" -> JArr(ops)]) :
        K \in SUBSET {"input", "output", "operations"}, ops \in SeqsUpTo(elems, n) }

\* the documents a config file can hold once parsed
Documents ==
    JobObjects(OpElements, MaxCfgOps)
    \cup { JObj([jobs |-> JArr(a)]) :
             a \in SeqsUpTo(JobObjects(JobOpElements, MaxCfgJobOps) \cup {JNum(1)}, MaxCfgJobs) }
    \cup { JObj([jobs |-> JArr(<<>>), operations |-> JArr(<<JObj([lang |-> JStr("uk")])>>)]),
           JObj([jobs |-> JStr("videos/demo.mp4")]),
           JObj([input |-> JNum(1)]),
           JObj([operations |-> JObj([type |-> JStr("voiceover")])]),
           JArr(<<JObj([input |-> JStr("videos/demo.mp4")])>>),
           JStr("videos/demo.mp4"), JNum(1), JBool(TRUE), JNull }

\* after JobManager's constructor: the document is loaded where a path was given
InitBuild ==
    /\ \/ options \in CliOptions /\ config_ = JNull
       \/ options \in ConfigOptions /\ config_ \in Documents
    /\ file = NoFile
    /\ calls = <<>>
    /\ millis = 0
    /\ timecode = <<>>
    /\ jobs = <<>>
    /\ jobIdx = 0
    /\ pc = "buildJobs"
    /\ call = 0
    /\ sub = "prepare"
    /\ ctx = FreshContext
    /\ streams = <<>>
    /\ operations_ = <<>>
    /\ nread = 0
    /\ heap = <<>>
    /\ warnings = <<>>
    /\ log = <<>>
    /\ trace = <<>>
    /\ InitIdle

NextBuild == BuildJobs

SpecBuild == InitBuild /\ [][NextBuild]_vars

----------------------------------------------------------------------------
(* The prepare hooks on their own: one instance of each operation, applied  *)
(* to a session in any order                                                *)

MaxHookCalls == 2      \* hook applications in a row

\* subtitle tracks: none, the one readSubtitles yields, a translated one
Tracks ==
    { FreshContext.subtitles,
      readSubtitles([FreshContext EXCEPT !.subtitleStreamIndex = 0]),
      SubtitleTranslate_prepare(SubtitleTranslateOperation([dst_lang |-> "uk"]),
                                [FreshContext EXCEPT !.subtitleStreamIndex = 0]).subtitles }

\* sessions a hook can be handed
Sessions ==
    { [FreshContext EXCEPT !.inputFormat = in, !.subtitleStreamIndex = si,
                           !.subtitles = track, !.generatedVoiceover = vo] :
        in \in {NULL, Handle(1, "inputFormat")}, si \in {NoStream, 0, 2}, track \in Tracks,
        vo \in {FreshContext.generatedVoiceover, synthesize(FreshContext.subtitles, "uk")} }

\* the frame the frame hooks are handed
HookFrameWidth == 2
HookFrameHeight == 1

\* one instance of each operation, and a WatermarkRemove with a region
HookChain ==
    << SubtitleRemoveOperation,
       SubtitleTranslateOperation([dst_lang |-> "uk"]),
       VoiceoverReplaceOperation(<<>>),
       WatermarkRemoveOperation(<<>>),
       WatermarkRemoveOperation([regions |-> <<[width |-> 1, height |-> 1]>>]) >>

\* op->prepare(ctx) called on one of the instances
ApplyPrepare ==
    /\ Len(log) < MaxHookCalls
    /\ \E i \in DOMAIN operations_ :
          /\ prev' = ctx
          /\ ctx' = prepare(operations_[i], ctx)
          /\ log' = Append(log, Ev("prepare", i, 0, NoStream))
          /\ io' = io \o prepareCalls(operations_[i], i, ctx)
    /\ prevFrame' = avframe
    /\ UNCHANGED <<jobs, jobIdx, pc, call, sub, streams, operations_, nread, heap, warnings,
                   trace, mainVars, avframe>>

InitHooks ==
    /\ ctx \in Sessions
    /\ prev = ctx
    /\ operations_ = HookChain
    /\ avframe = AVFrame(HookFrameWidth, HookFrameHeight)
    /\ prevFrame = avframe
    /\ io = <<>>
    /\ jobs = <<>>
    /\ jobIdx = 0
    /\ pc = "running"
    /\ call = 0
    /\ sub = "prepare"
    /\ streams = <<>>
    /\ nread = 0
    /\ heap = <<>>
    /\ warnings = <<>>
    /\ log = <<>>
    /\ trace = <<>>
    /\ options = ProgramOptions(<<>>, "in.mp4", "out.mp4", NoOpt, NoOpt, NoOpt, NoOpt, NoOpt, NoOpt)
    /\ InitMain

----------------------------------------------------------------------------
(* WatermarkRemoveOperation::processFrame on its own: one frame, one        *)
(* operation instance.  A pixel is "source", "blurred" or "inpainted".      *)

MaxDim == 2            \* columns and rows of a frame, at most
MaxExtraRegions == 1   \* regions of an operation after its first one

Max(a, b) == IF a >= b THEN a ELSE b
Min(a, b) == IF a <= b THEN a ELSE b

\* cv::Rect(x, y, width, height)
Rect(x, y, width, height) == [x |-> x, y |-> y, width |-> width, height |-> height]

\* cv::Rect operator&: the intersection, the empty Rect() where there is none
RectAnd(a, b) ==
    LET x1 == Max(a.x, b.x)
        y1 == Max(a.y, b.y)
        w == Min(a.x + a.width, b.x + b.width) - x1
        h == Min(a.y + a.height, b.y + b.height) - y1
    IN  IF w <= 0 \/ h <= 0 THEN Rect(0, 0, 0, 0) ELSE Rect(x1, y1, w, h)

\* cv::Rect::area
area(r) == r.width * r.height

\* the pixel positions a rectangle covers
RectPixels(r) == (r.x..(r.x + r.width - 1)) \X (r.y..(r.y + r.height - 1))

\* cv::Mat::operator()(const Rect&) throws unless the rectangle lies in the matrix
RoiThrows(img, r) ==
    ~ /\ 0 <= r.x /\ 0 <= r.width /\ r.x + r.width <= img.cols
      /\ 0 <= r.y /\ 0 <= r.height /\ r.y + r.height <= img.rows

\* cv::GaussianBlur(roi, roi, ...): every pixel of the region of interest is written
GaussianBlur(img, r) ==
    [img EXCEPT !.pix = [p \in DOMAIN img.pix |-> IF p \in RectPixels(r) THEN "blurred" ELSE img.pix[p]]]

\* cv::rectangle(mask, rect, 255, FILLED); cv::inpaint(img, mask, img, ...):
\* every pixel the mask marks is written
inpaint(img, r) ==
    [img EXCEPT !.pix = [p \in DOMAIN img.pix |-> IF p \in RectPixels(r) THEN "inpainted" ELSE img.pix[p]]]

\* FfmpegAdapter::toMat: a matrix of the frame's size with the frame's rows copied in
toMat(frame) == [cols |-> frame.width, rows |-> frame.height, pix |-> frame.data]

\* FfmpegAdapter::fromMat: the matrix's rows copied back into the frame
fromMat(img, frame) ==
    [frame EXCEPT !.data = [p \in DOMAIN frame.data |->
                               IF p[1] < img.cols /\ p[2] < img.rows THEN img.pix[p] ELSE frame.data[p]]]

\* apply without the intersection with the frame rectangle
RECURSIVE WatermarkRemove_applyUnclipped(_, _, _)
WatermarkRemove_applyUnclipped(regions, i, img) ==
    IF i > Len(regions) THEN [img |-> img, threw |-> FALSE]
    ELSE LET r == regions[i]
             rect == Rect(r.x, r.y, r.width, r.height)
         IN  IF area(rect) <= 0 THEN WatermarkRemove_applyUnclipped(regions, i + 1, img)
             ELSE IF r.method = "inpaint"
                  THEN WatermarkRemove_applyUnclipped(regions, i + 1, inpaint(img, rect))
             ELSE IF RoiThrows(img, rect) THEN [img |-> img, threw |-> TRUE]
             ELSE WatermarkRemove_applyUnclipped(regions, i + 1, GaussianBlur(img, rect))

\* WatermarkRemoveOperation::apply, the loop over regions_ from the i-th on
RECURSIVE WatermarkRemove_apply(_, _, _)
WatermarkRemove_apply(regions, i, img) ==
    IF i > Len(regions) THEN [img |-> img, threw |-> FALSE]
    ELSE LET r == regions[i]
             rect == RectAnd(Rect(r.x, r.y, r.width, r.height), Rect(0, 0, img.cols, img.rows))
         IN  IF area(rect) <= 0 THEN WatermarkRemove_apply(regions, i + 1, img)
             ELSE IF r.method = "inpaint"
                  THEN WatermarkRemove_apply(regions, i + 1, inpaint(img, rect))
             ELSE IF RoiThrows(img, rect) THEN [img |-> img, threw |-> TRUE]
             ELSE WatermarkRemove_apply(regions, i + 1, GaussianBlur(img, rect))

\* WatermarkRemoveOperation::processFrame
WatermarkRemove_processFrame(op, frame) ==
    IF op.regions = <<>> THEN [frame |-> frame, threw |-> FALSE]
    ELSE LET r == WatermarkRemove_apply(op.regions, 1, toMat(frame))
         IN  IF r.threw THEN [frame |-> frame, threw |-> TRUE]
             ELSE [frame |-> fromMat(r.img, frame), threw |-> FALSE]

\* the "regions" elements of a watermark_remove descriptor: every corner from
\* left of / above the frame to its far edge, every size from negative to
\* larger than the frame
RegionBags ==
    { [x |-> x, y |-> y, width |-> w, height |-> h, method |-> m] :
        x \in -1..MaxDim, y \in -1..MaxDim, w \in -1..(MaxDim + 1), h \in -1..(MaxDim + 1),
        m \in {"blur", "inpaint"} }

\* regions that follow the first one: defaults for what they leave out
ExtraRegions ==
    { [width |-> 1, height |-> 1],
      [x |-> 1, y |-> 1, width |-> 5, height |-> 5, method |-> "inpaint"],
      [x |-> -3, width |-> 2, height |-> 1] }

WatermarkParams ==
    { [type |-> "watermark_remove", regions |-> <<r>> \o tail] :
        r \in RegionBags, tail \in SeqsUpTo(ExtraRegions, MaxExtraRegions) }

\* op->processFrame(ctx_, frame, pts) on the one instance
ApplyProcessFrame ==
    /\ pc = "running"
    /\ log = <<>>
    /\ LET r == WatermarkRemove_processFrame(operations_[1], avframe)
       IN  /\ avframe' = r.frame
           /\ pc' = IF r.threw THEN "exit1" ELSE pc
    /\ log' = Append(log, Ev("processFrame", 1, 1, NoStream))
    /\ prevFrame' = avframe
    /\ UNCHANGED <<jobs, jobIdx, call, sub, ctx, streams, operations_, nread, heap, warnings,
                   trace, mainVars, prev, io>>

InitFrame ==
    /\ \E params \in WatermarkParams : operations_ = <<WatermarkRemoveOperation(params)>>
    /\ \E width \in 1..MaxDim, height \in 1..MaxDim : avframe = AVFrame(width, height)
    /\ prevFrame = avframe
    /\ ctx = FreshContext
    /\ prev = FreshContext
    /\ io = <<>>
    /\ jobs = <<>>
    /\ jobIdx = 0
    /\ pc = "running"
    /\ call = 0
    /\ sub = "loop"
    /\ streams = <<>>
    /\ nread = 0
    /\ heap = <<>>
    /\ warnings = <<>>
    /\ log = <<>>
    /\ trace = <<>>
    /\ options = ProgramOptions(<<>>, "in.mp4", "out.mp4", NoOpt, NoOpt, NoOpt, NoOpt, NoOpt, NoOpt)
    /\ InitMain

NextFrame == ApplyProcessFrame

SpecFrame == InitFrame /\ [][NextFrame]_vars

----------------------------------------------------------------------------
(* The hooks on their own: every hook of every instance of HookChain,       *)
(* applied to a session and a frame in any order                            *)

\* a frame hook in which every operation runs its prepare again
frameHookPreparing(op, c, frame) ==
    IF op.kind = "WatermarkRemove"
    THEN LET r == WatermarkRemove_processFrame(op, frame)
         IN  [ctx |-> prepare(op, c), frame |-> r.frame, threw |-> r.threw]
    ELSE [ctx |-> prepare(op, c), frame |-> frame, threw |-> FALSE]

\* op->processFrame(ctx, frame, pts) on a frame with its pixels: the bodies of
\* SubtitleTranslate, SubtitleRemove and VoiceoverReplace are empty
frameHook(op, c, frame) ==
    IF op.kind = "WatermarkRemove"
    THEN LET r == WatermarkRemove_processFrame(op, frame)
         IN  [ctx |-> c, frame |-> r.frame, threw |-> r.threw]
    ELSE [ctx |-> c, frame |-> frame, threw |-> FALSE]

\* op->processFrame(ctx, frame, pts) called on one of the instances
HookProcessFrame ==
    /\ pc = "running"
    /\ Len(log) < MaxHookCalls
    /\ \E i \in DOMAIN operations_ :
          LET r == frameHook(operations_[i], ctx, avframe)
          IN  /\ prev' = ctx
              /\ prevFrame' = avframe
              /\ ctx' = r.ctx
              /\ avframe' = r.frame
              /\ pc' = IF r.threw THEN "exit1" ELSE pc
              /\ log' = Append(log, Ev("processFrame", i, 1, NoStream))
    /\ UNCHANGED <<jobs, jobIdx, call, sub, streams, operations_, nread, heap, warnings,
                   trace, mainVars, io>>

\* op->finalize(ctx) called on one of the instances
HookFinalize ==
    /\ pc = "running"
    /\ Len(log) < MaxHookCalls
    /\ \E i \in DOMAIN operations_ :
          /\ prev' = ctx
          /\ prevFrame' = avframe
          /\ ctx' = finalize(operations_[i], ctx)
          /\ io' = io \o finalizeCalls(operations_[i], i, ctx)
          /\ log' = Append(log, Ev("finalize", i, 0, NoStream))
    /\ UNCHANGED <<jobs, jobIdx, pc, call, sub, streams, operations_, nread, heap, warnings,
                   trace, mainVars, avframe>>

NextHooks ==
    \/ ApplyPrepare
    \/ HookProcessFrame
    \/ HookFinalize

SpecHooks == InitHooks /\ [][NextHooks]_vars

----------------------------------------------------------------------------
(* The engine on inputs of every stream layout: one job, any number of      *)
(* streams of any type in any order                                         *)

MaxStreams == 3        \* streams of an input file
MaxOpenPackets == 2    \* packets of the input (layout specification)

\* AVMediaType of a stream: the three the engine gives a role to, and one of
\* the others (AVMEDIA_TYPE_DATA)
MediaTypes == StreamTypes \cup {"data"}

AllLayouts == SeqsUpTo(MediaTypes, MaxStreams)

AllOpenOutcomes == {[ok |-> FALSE, layout |-> <<>>]} \cup {[ok |-> TRUE, layout |-> l] : l \in AllLayouts}

\* the chains of the jobs: none, and one that detaches the subtitle stream
\* before the packets are read
LayoutJobs ==
    { VideoJob("in.mp4", "out.mp4", <<>>),
      VideoJob("in.mp4", "out.mp4",
               << [type |-> "subtitles_remove", params |-> ParamsOf("subtitles_remove")],
                  [type |-> "voiceover", params |-> ParamsOf("voiceover")] >>) }

InitLayout == jobs \in {<<j>> : j \in LayoutJobs} /\ InitEngine /\ InitHanded

NextLayout ==
    \/ NextJob
    \/ InitializeFrom(AllOpenOutcomes)
    \/ BuildOperations
    \/ PreparePhase
    \/ ReadPacket(MaxOpenPackets)
    \/ EndOfInput
    \/ Shutdown
    \/ RunReturns

SpecLayout == InitLayout /\ [][NextLayout]_vars

----------------------------------------------------------------------------
(* The engine on chains of every composition of the subtitle and voiceover  *)
(* operations: one job, two voiceover descriptors of different languages    *)

MaxChain == 3          \* descriptors of the job (chain specification)
MaxChainPackets == 1   \* packets of the input (chain specification)

ChainDescriptors ==
    { [type |-> t, params |-> ParamsOf(t)] : t \in {"subtitles_translate", "subtitles_remove", "voiceover"} }
    \cup { [type |-> "voiceover", params |-> [type |-> "voiceover", lang |-> "de"]] }

ChainJobs == {VideoJob("in.mp4", "out.mp4", ops) : ops \in SeqsUpTo(ChainDescriptors, MaxChain)}

InitChain == jobs \in {<<j>> : j \in ChainJobs} /\ InitEngine /\ InitHanded

NextChain ==
    \/ NextJob
    \/ Initialize
    \/ BuildOperations
    \/ PreparePhase
    \/ ReadPacket(MaxChainPackets)
    \/ EndOfInput
    \/ Shutdown
    \/ RunReturns

SpecChain == InitChain /\ [][NextChain]_vars

----------------------------------------------------------------------------
(* utils::Timecode::toString on its own: a string is the sequence of its    *)
(* characters                                                               *)

MaxField == 2          \* values of a field taken at each end of its range

\* INT_MAX
IntMax == 2147483647

\* static_cast<int> of an int64_t: the value itself where an int holds it.  An
\* int holds every field of an argument below IntMax milliseconds (596 hours),
\* and no argument of the model is larger
ToInt(x) == IF x <= IntMax THEN x ELSE x - IntMax - IntMax - 2

\* operator<< of a non-negative int: its decimal digits, no leading zero
RECURSIVE DecimalDigits(_)
DecimalDigits(n) ==
    IF n < 10 THEN <<Digits[n + 1]>>
    ELSE DecimalDigits(n \div 10) \o <<Digits[(n % 10) + 1]>>

\* a stream that ignores setw and setfill
PadNone(str, width) == str

\* std::setw(width) << std::setfill('0'): filled on the left up to the width,
\* never cut
RECURSIVE Pad(_, _)
Pad(str, width) == IF Len(str) >= width THEN str ELSE Pad(<<"0">> \o str, width)

\* Timecode::toString
toString(ms) ==
    LET totalSeconds == ms \div 1000
        hours == ToInt(totalSeconds \div 3600)
        minutes == ToInt((totalSeconds % 3600) \div 60)
        seconds == ToInt(totalSeconds % 60)
        milliseconds == ToInt(ms % 1000)
    IN  Pad(DecimalDigits(hours), 2) \o <<":">>
        \o Pad(DecimalDigits(minutes), 2) \o <<":">>
        \o Pad(DecimalDigits(seconds), 2) \o <<",">>
        \o Pad(DecimalDigits(milliseconds), 3)

\* the values of a field within MaxField of either end of its range
Near(lo, hi) == (lo..(lo + MaxField)) \cup ((hi - MaxField)..hi)

\* the arguments of the model: every field near both ends of its range, the
\* hours up to three digits, the milliseconds of the workflow test among them
Arguments ==
    { h * 3600000 + m * 60000 + sec * 1000 + k :
        h \in Near(0, 101), m \in Near(0, 59), sec \in Near(0, 59), k \in Near(0, 999) \cup {200} }

\* utils::Timecode::toString(millis)
CallToString ==
    /\ timecode = <<>>
    /\ timecode' = toString(millis)
    /\ UNCHANGED <<jobs, jobIdx, pc, call, sub, ctx, streams, operations_, nread, heap, warnings,
                   log, trace, options, config_, file, calls, millis, hookVars>>

InitTimecode ==
    /\ millis \in Arguments
    /\ timecode = <<>>
    /\ jobs = <<>>
    /\ InitEngine
    /\ options = ProgramOptions(<<>>, "in.mp4", "out.mp4", NoOpt, NoOpt, NoOpt, NoOpt, NoOpt, NoOpt)
    /\ config_ = JNull
    /\ file = NoFile
    /\ calls = <<>>
    /\ InitIdle

NextTimecode == CallToString

SpecTimecode == InitTimecode /\ [][NextTimecode]_vars

----------------------------------------------------------------------------
(* Vocabulary of the properties *)

Iota(n) == [i \in 1..n |-> i]

\* indices of the log entries of one kind
At(e) == {i \in DOMAIN log : log[i].ev = e}

\* the operations a hook was called on, in call order (k: the frame, 0 outside the loop)
HookedOps(e, k) ==
    LET Is(x) == x.ev = e /\ x.pkt = k
        s == SelectSeq(log, Is)
    IN  [i \in DOMAIN s |-> s[i].op]

\* the packets some kind of entry is about, in log order
PacketsOf(e) ==
    LET Is(x) == x.ev = e
        s == SelectSeq(log, Is)
    IN  [i \in DOMAIN s |-> s[i].pkt]

IsRecognized(d) == d.type \in RecognizedTypes
IsUnknown(d) == d.type \notin RecognizedTypes

KindOf(t) ==
    CASE t = "subtitles_translate" -> "SubtitleTranslate"
      [] t = "subtitles_remove" -> "SubtitleRemove"
      [] t = "watermark_remove" -> "WatermarkRemove"
      [] t = "voiceover" -> "VoiceoverReplace"

Canonical == <<"Initialize", "BuildOperations", "ProcessFrames", "Shutdown", "Terminal">>

IsPrefix(s, t) == Len(s) <= Len(t) /\ \A i \in DOMAIN s : s[i] = t[i]

HasEngine == jobIdx > 0
Reached(state) == \E i \in DOMAIN trace : trace[i] = state
Built == HasEngine /\ Reached("ProcessFrames")
Prepared == Built /\ (sub = "loop" \/ Reached("Shutdown"))
Drained == HasEngine /\ Reached("Shutdown")

----------------------------------------------------------------------------
(* Properties *)

\* C1: in every phase the hooks are called on the operations in chain order:
\* the prepare calls, the process-frame calls of each decoded frame and the
\* finalize calls each go through the chain 1, 2, .., n, so the order is the
\* same in the three phases.
C1_HooksInChainOrder ==
    LET n == Len(operations_)
    IN  /\ HookedOps("prepare", 0) = (IF Prepared THEN Iota(n) ELSE <<>>)
        /\ \A k \in 1..nread :
              HookedOps("processFrame", k) = (IF k \in {log[i].pkt : i \in At("decode")} THEN Iota(n) ELSE <<>>)
        /\ HookedOps("finalize", 0) = (IF Drained THEN Iota(n) ELSE <<>>)

C1_Witness ==
    /\ Drained
    /\ Len(operations_) = 3
    /\ Cardinality({operations_[i].kind : i \in 1..3}) = 3
    /\ HookedOps("prepare", 0) = <<1, 2, 3>>
    /\ HookedOps("processFrame", 1) = <<1, 2, 3>>
    /\ HookedOps("finalize", 0) = <<1, 2, 3>>

\* C2: once BuildOperations is done the chain is the subsequence of the job's
\* descriptors of a recognized type, in declared order, one instance per
\* descriptor, each constructed from its own descriptor's parameters.
C2_ChainIsRecognizedSubsequence ==
    Built =>
        LET rec == SelectSeq(jobs[jobIdx].operations, IsRecognized)
        IN  /\ Len(operations_) = Len(rec)
            /\ \A i \in DOMAIN rec :
                  /\ operations_[i].kind = KindOf(rec[i].type)
                  /\ rec[i].type = "subtitles_translate" => operations_[i].dstLang = rec[i].params["dst_lang"]
                  /\ rec[i].type = "voiceover" => operations_[i].lang = rec[i].params["lang"]

C2_Witness ==
    /\ Built
    /\ Len(jobs[jobIdx].operations) = 3
    /\ jobs[jobIdx].operations[1].type = "voiceover"
    /\ jobs[jobIdx].operations[2].type = "subtitles_remove"
    /\ jobs[jobIdx].operations[3].type = "voiceover"
    /\ Len(operations_) = 3
    /\ operations_[1].kind = "VoiceoverReplace"
    /\ operations_[3].kind = "VoiceoverReplace"

\* C3: a descriptor of unknown type does not abort chain building: it is
\* logged as a warning and yields no instance, every recognized descriptor
\* before and after it yields one, and the job goes on to ProcessFrames.
C3_UnknownTypeSkipped ==
    LET descs == jobs[jobIdx].operations
        unknown == SelectSeq(descs, IsUnknown)
    IN  /\ Built =>
              /\ warnings = [i \in DOMAIN unknown |-> unknown[i].type]
              /\ Len(operations_) = Len(descs) - Len(unknown)
        /\ (HasEngine /\ Reached("BuildOperations")) => pc # "exit1"
        /\ (HasEngine /\ trace[Len(trace)] = "BuildOperations") => ENABLED BuildOperations

C3_Witness ==
    /\ Built
    /\ sub = "loop"
    /\ Len(jobs[jobIdx].operations) = 3
    /\ jobs[jobIdx].operations[1].type = "watermark_remove"
    /\ jobs[jobIdx].operations[2].type = "bogus"
    /\ jobs[jobIdx].operations[3].type = "subtitles_remove"
    /\ Len(operations_) = 2
    /\ operations_[1].kind = "WatermarkRemove"
    /\ operations_[2].kind = "SubtitleRemove"
    /\ warnings = <<"bogus">>

\* C4: the engine states a job enters are Initialize, BuildOperations,
\* ProcessFrames, Shutdown, Terminal in this order, each at most once, and a
\* job that returns has entered all five.
C4_StatesInOrder ==
    /\ IsPrefix(trace, Canonical)
    /\ HasEngine => (trace # <<>> /\ trace[Len(trace)] = EngineState(call))
    /\ (HasEngine /\ (BetweenJobs \/ pc = "exit0")) => trace = Canonical

C4_Witness == HasEngine /\ pc = "exit0" /\ trace = Canonical /\ nread = MaxPackets

\* C5: when main returns, every handle a job allocated (input, output,
\* decoder, encoder) has been released exactly once, on every exit path.
C5_ReleasedExactlyOnce ==
    pc \in {"exit0", "exit1"} => \A h \in DOMAIN heap : heap[h] = 1

\* C6: a job whose input or output cannot be opened aborts only itself: when
\* main returns, every job of the batch has been started.
C6_LaterJobsStillStarted ==
    pc \in {"exit0", "exit1"} => jobIdx = Len(jobs)

PacketEvents == {"read", "decode", "decodeFailed", "processFrame", "encode", "copy"}

CountOf(e, i) == Cardinality({x \in At(e) : log[x].op = i})

\* C7: each operation of the chain is prepared exactly once, and every prepare
\* call precedes the first packet read and every process-frame, encode, flush
\* and finalize call, whether or not the input yields a video frame.
C7_PrepareOnceBeforeFrames ==
    LET n == Len(operations_)
    IN  /\ \A i \in 1..n : CountOf("prepare", i) = (IF Prepared THEN 1 ELSE 0)
        /\ \A x \in At("prepare") : log[x].op \in 1..n
        /\ \A x \in At("prepare"), y \in DOMAIN log : log[y].ev # "prepare" => x < y
        /\ ~Prepared => log = <<>>

C7_Witness ==
    /\ Drained
    /\ Len(operations_) >= 2
    /\ nread = MaxPackets
    /\ At("decode") = {}
    /\ At("decodeFailed") = {}
    /\ \A i \in 1..Len(operations_) : CountOf("prepare", i) = 1

\* C8: a video packet that decodes is followed at once by one process-frame
\* call per operation, in chain order, and then by one encode call on the same
\* frame, all before the next packet is read; frames reach the chain and the
\* encoder in the order the decoder produced them.
C8_FrameThroughChainThenEncoder ==
    LET n == Len(operations_)
    IN  /\ \A d \in At("decode") :
              LET k == log[d].pkt
              IN  /\ d + n + 1 <= Len(log)
                  /\ \A i \in 1..n : log[d + i] = Ev("processFrame", i, k, NoStream)
                  /\ log[d + n + 1] = Ev("encode", 0, k, NoStream)
                  /\ Cardinality({x \in At("processFrame") : log[x].pkt = k}) = n
                  /\ Cardinality({x \in At("encode") : log[x].pkt = k}) = 1
                  /\ \A r \in At("read") : log[r].pkt > k => r > d + n + 1
        /\ PacketsOf("encode") = PacketsOf("decode")
        /\ \A x \in At("processFrame") \cup At("encode") : \E d \in At("decode") : log[d].pkt = log[x].pkt
        /\ \A i \in 1..n :
              LET Is(x) == x.ev = "processFrame" /\ x.op = i
                  s == SelectSeq(log, Is)
              IN  [m \in DOMAIN s |-> s[m].pkt] = PacketsOf("decode")

C8_Witness ==
    /\ Drained
    /\ Len(operations_) >= 2
    /\ PacketsOf("decode") = <<1, 2>>
    /\ PacketsOf("encode") = <<1, 2>>
    /\ HookedOps("processFrame", 2) = Iota(Len(operations_))

\* C9: each operation is finalized exactly once in a job that completes, no
\* finalize call comes before the encoder was flushed, the flush comes after
\* every packet was read and handled, and nothing is processed or encoded
\* after a finalize call.
C9_FinalizeOnceAfterFlush ==
    LET n == Len(operations_)
    IN  /\ \A i \in 1..n : CountOf("finalize", i) = (IF Drained THEN 1 ELSE 0)
        /\ \A x \in At("finalize") : log[x].op \in 1..n
        /\ Cardinality(At("flush")) = (IF Drained THEN 1 ELSE 0)
        /\ \A f \in At("finalize") : \E x \in At("flush") : x < f
        /\ \A x \in At("flush") \cup At("finalize"), y \in DOMAIN log : log[y].ev \in PacketEvents => y < x
        /\ Cardinality(At("read")) = nread

C9_Witness ==
    /\ Drained
    /\ Len(operations_) >= 2
    /\ nread = MaxPackets
    /\ At("encode") # {}
    /\ \A i \in 1..Len(operations_) : CountOf("finalize", i) = 1

\* C10: a video packet that fails to decode reaches no process-frame hook and
\* no encoder call, does not abort the job, and is followed by the next read
\* (or the end of the input); a later packet that decodes goes through the
\* whole chain and the encoder as usual.
C10_DecodeFailureSkipsFrame ==
    LET n == Len(operations_)
    IN  /\ \A d \in At("decodeFailed") :
              LET k == log[d].pkt
              IN  /\ \A x \in DOMAIN log : log[x].pkt = k => log[x].ev \in {"read", "decodeFailed"}
                  /\ d < Len(log) => \/ log[d + 1] = Ev("flush", 0, 0, NoStream)
                                     \/ (log[d + 1].ev = "read" /\ log[d + 1].pkt = k + 1)
                  /\ d = Len(log) => (Current("processFrames") /\ sub = "loop")
                  /\ pc # "exit1"
        /\ \A d \in At("decode") :
              /\ d + n + 1 <= Len(log)
              /\ \A i \in 1..n : log[d + i] = Ev("processFrame", i, log[d].pkt, NoStream)
              /\ log[d + n + 1] = Ev("encode", 0, log[d].pkt, NoStream)

C10_Witness ==
    /\ pc = "exit0"
    /\ Len(operations_) >= 2
    /\ PacketsOf("decodeFailed") = <<1>>
    /\ PacketsOf("decode") = <<2>>
    /\ HookedOps("processFrame", 1) = <<>>
    /\ HookedOps("processFrame", 2) = Iota(Len(operations_))
    /\ PacketsOf("encode") = <<2>>

----------------------------------------------------------------------------
\* C11: when a config path is supplied and the file cannot be opened or its
\* text is rejected by the parser, the run ends in main's handler with exit
\* code 1 and nothing else has happened: no builder was called and no job
\* built, no engine was constructed, no session resource was allocated and no
\* hook or collaborator was called.
C11_UnloadableConfigAborts ==
    (options.configPath.has /\ pc # "construct" /\ ~loadJson(file).ok) =>
        /\ pc = "exit1"
        /\ calls = <<>> /\ jobs = <<>>
        /\ jobIdx = 0 /\ call = 0 /\ trace = <<>>
        /\ ctx = FreshContext /\ heap = <<>>
        /\ log = <<>>

\* a written config file cut short in the middle is rejected and the run is over
C11_Witness ==
    /\ options.configPath.has
    /\ file.readable
    /\ file.text \in Truncations(Text("operations")) \ {Text("operations")}
    /\ Len(file.text) > 20
    /\ ~loadJson(file).ok
    /\ pc = "exit1"

----------------------------------------------------------------------------
(* Vocabulary of the builder's properties *)

BuildDone == pc \notin {"construct", "buildJobs"}
BuildFailed == pc = "exit1" /\ jobs = <<>>
ConfigDriven == options.configPath.has /\ is_object(config_)

\* an element of "operations" as the document format has it: { "type": string, ... }
IsOpElement(e) == is_object(e) /\ contains(e, "type") /\ is_string(at(e, "type"))

\* the elements of the "operations" array of a job object (none: no such array)
ElementsOf(j) ==
    IF contains(j, "operations") /\ is_array(at(j, "operations")) THEN at(j, "operations").a ELSE <<>>

\* a job object as the document format has it:
\* { "input": string?, "output": string?, "operations": [ element, ... ] }
IsJobObject(j) ==
    /\ is_object(j)
    /\ contains(j, "input") => is_string(at(j, "input"))
    /\ contains(j, "output") => is_string(at(j, "output"))
    /\ contains(j, "operations") => is_array(at(j, "operations"))
    /\ \A k \in DOMAIN ElementsOf(j) : IsOpElement(ElementsOf(j)[k])

\* the job has the object's input and output, the command line's where the
\* object has none, and one descriptor per element, of the element's type
Reflects(job, j) ==
    /\ job.input = IF contains(j, "input") THEN at(j, "input").s ELSE options.input
    /\ job.output = IF contains(j, "output") THEN at(j, "output").s ELSE options.output
    /\ Len(job.operations) = Len(ElementsOf(j))
    /\ \A k \in DOMAIN ElementsOf(j) : job.operations[k].type = at(ElementsOf(j)[k], "type").s

\* the job objects buildJobs builds from: the elements of "jobs", or the document
Consulted ==
    IF ~contains(config_, "jobs") THEN <<config_>>
    ELSE IF is_array(at(config_, "jobs")) THEN at(config_, "jobs").a
    ELSE <<>>

----------------------------------------------------------------------------
\* C12: buildJobs builds from the document exactly when a config path was
\* given and the loaded document is an object; in every other case (no path,
\* or a document that is an array, a string, a number, null) it calls the CLI
\* builder once and returns exactly that one job.
C12_ConfigDrivenIffPathAndObject ==
    BuildDone =>
        IF ConfigDriven
        THEN \A i \in DOMAIN calls : calls[i] = "buildJobFromConfig"
        ELSE /\ calls = <<"buildJobFromCli">>
             /\ pc # "exit1"
             /\ jobs = <<buildJobFromCli(options)>>

\* a config path whose document is an array: the job comes from the command line
C12_Witness ==
    /\ BuildDone
    /\ options.configPath.has
    /\ is_array(config_)
    /\ calls = <<"buildJobFromCli">>
    /\ Len(jobs) = 1
    /\ jobs[1].input = "cli_in.mp4"
    /\ Len(jobs[1].operations) = 2

----------------------------------------------------------------------------
\* C13: for a document with a "jobs" array of N job objects the builder
\* returns N jobs, the i-th built from the i-th element: its input, output and
\* operations are the element's, the command line's input or output where the
\* element has none.
C13_OneJobPerElementInOrder ==
    (BuildDone /\ ConfigDriven /\ contains(config_, "jobs") /\ is_array(at(config_, "jobs"))) =>
        LET arr == at(config_, "jobs").a
        IN  (\A i \in DOMAIN arr : IsJobObject(arr[i])) =>
                /\ pc # "exit1"
                /\ Len(jobs) = Len(arr)
                /\ \A i \in DOMAIN arr : Reflects(jobs[i], arr[i])

\* two elements: the first names its input and no operations, the second
\* leaves the input to the command line and has one operation
C13_Witness ==
    /\ BuildDone /\ ConfigDriven /\ contains(config_, "jobs")
    /\ Len(jobs) = 2
    /\ contains(at(config_, "jobs").a[1], "input")
    /\ jobs[1].input = "videos/demo.mp4"
    /\ jobs[1].operations = <<>>
    /\ ~contains(at(config_, "jobs").a[2], "input")
    /\ jobs[2].input = "cli_in.mp4"
    /\ Len(jobs[2].operations) = 1

----------------------------------------------------------------------------
\* C14: for a document that is a job object without a "jobs" key the builder
\* calls the config builder once, on the document itself, and returns exactly
\* that one job.
C14_SingleJobFromDocument ==
    (BuildDone /\ ConfigDriven /\ ~contains(config_, "jobs") /\ IsJobObject(config_)) =>
        /\ pc # "exit1"
        /\ calls = <<"buildJobFromConfig">>
        /\ Len(jobs) = 1
        /\ Reflects(jobs[1], config_)

\* a document with its own output and two operations, on a command line that
\* names other operations
C14_Witness ==
    /\ BuildDone /\ ConfigDriven /\ ~contains(config_, "jobs")
    /\ options.operations # <<>>
    /\ Len(jobs) = 1
    /\ jobs[1].input = "cli_in.mp4"
    /\ jobs[1].output = "output/demo_uk.mp4"
    /\ Len(jobs[1].operations) = 2
    /\ jobs[1].operations[1].type = "watermark_remove"

----------------------------------------------------------------------------
\* C15: the CLI builder returns one job with the command line's input and
\* output and one descriptor per operation name, in the order of the names:
\* subtitles_translate carries src_lang and dst_lang, voiceover carries lang,
\* base_url and api_key, each the flag's value or its default ("auto" for the
\* languages, "" for the others), and any other name, known to the registry or
\* not, has a descriptor with no parameters.
C15_CliJobMatchesNames ==
    (BuildDone /\ calls = <<"buildJobFromCli">>) =>
        /\ Len(jobs) = 1
        /\ jobs[1].input = options.input
        /\ jobs[1].output = options.output
        /\ Len(jobs[1].operations) = Len(options.operations)
        /\ \A i \in DOMAIN options.operations :
              LET name == options.operations[i]
                  d == jobs[1].operations[i]
                  Flag(f, default) == IF f.has THEN f.v ELSE default
              IN  /\ d.type = name
                  /\ CASE name = "subtitles_translate" ->
                             /\ DOMAIN d.params = {"src_lang", "dst_lang"}
                             /\ d.params["src_lang"] = Flag(options.subtitleSrcLang, "auto")
                             /\ d.params["dst_lang"] = Flag(options.subtitleDstLang, "auto")
                       [] name = "voiceover" ->
                             /\ DOMAIN d.params = {"lang", "base_url", "api_key"}
                             /\ d.params["lang"] = Flag(options.ttsLang, "auto")
                             /\ d.params["base_url"] = Flag(options.ttsBaseUrl, "")
                             /\ d.params["api_key"] = Flag(options.ttsApiKey, "")
                       [] OTHER -> DOMAIN d.params = {}

\* a translation without --subtitle-lang-src and an unknown name after it
C15_Witness ==
    /\ BuildDone
    /\ ~options.configPath.has
    /\ options.operations = <<"subtitles_translate", "bogus">>
    /\ ~options.subtitleSrcLang.has
    /\ options.subtitleDstLang.has
    /\ jobs[1].operations[1].params["src_lang"] = "auto"
    /\ jobs[1].operations[1].params["dst_lang"] = "de"
    /\ jobs[1].operations[2].type = "bogus"

----------------------------------------------------------------------------
\* C16: a job built from a config object has one descriptor per element of the
\* object's "operations" array, in the array's order; the descriptor's type is
\* the element's "type" and its parameters are the whole element, "type" and
\* every other member included.
C16_OperationsArrayPreserved ==
    (BuildDone /\ ConfigDriven /\ pc # "exit1") =>
        /\ Len(jobs) = Len(Consulted)
        /\ \A i \in DOMAIN Consulted :
              LET elems == ElementsOf(Consulted[i])
                  ops == jobs[i].operations
              IN  /\ Len(ops) = Len(elems)
                  /\ \A k \in DOMAIN elems :
                        /\ ops[k].type = at(elems[k], "type").s
                        /\ DOMAIN ops[k].params = DOMAIN elems[k].o
                        /\ \A key \in DOMAIN elems[k].o :
                              ops[k].params[key] = Plain(at(elems[k], key))

\* a translation and a watermark removal: the region list travels in the bag
C16_Witness ==
    /\ BuildDone /\ ConfigDriven /\ ~contains(config_, "jobs")
    /\ Len(jobs) = 1
    /\ Len(jobs[1].operations) = 2
    /\ jobs[1].operations[1].type = "subtitles_translate"
    /\ jobs[1].operations[1].params["dst_lang"] = "uk"
    /\ jobs[1].operations[2].params["type"] = "watermark_remove"
    /\ jobs[1].operations[2].params["regions"][1]["width"] = 200

----------------------------------------------------------------------------
\* C17: where a job object the builder builds from has an "operations" element
\* without a "type" member, buildJobs throws: no job is returned, so no job
\* holds a descriptor made from such an element, and main returns 1.
C17_TypelessElementRejected ==
    (BuildDone /\ ConfigDriven /\
     \E i \in DOMAIN Consulted :
        \E k \in DOMAIN ElementsOf(Consulted[i]) : ~contains(ElementsOf(Consulted[i])[k], "type")) =>
        BuildFailed

\* the second element of the array has no type: the first one's descriptor is lost with it
C17_Witness ==
    /\ BuildDone /\ ConfigDriven /\ ~contains(config_, "jobs")
    /\ Len(ElementsOf(config_)) = 2
    /\ IsOpElement(ElementsOf(config_)[1])
    /\ is_object(ElementsOf(config_)[2])
    /\ ~contains(ElementsOf(config_)[2], "type")
    /\ calls = <<"buildJobFromConfig">>
    /\ BuildFailed

----------------------------------------------------------------------------
\* the kind of the operation the i-th hook call of the log was made on
HookKind(i) == operations_[log[i].op].kind

\* C18: whatever the session holds, SubtitleRemove's prepare leaves it with
\* no subtitle stream assigned and no cues; applied a second time right after,
\* it leaves the whole session as the first application left it.
C18_SubtitleRemoveClearsIdempotently ==
    LET n == Len(log)
    IN  /\ (n >= 1 /\ log[n].ev = "prepare" /\ HookKind(n) = "SubtitleRemove") =>
              /\ ctx.subtitleStreamIndex = NoStream
              /\ ctx.subtitles.cues = <<>>
        /\ (n >= 2 /\ log[n].ev = "prepare" /\ HookKind(n) = "SubtitleRemove"
                   /\ log[n - 1].ev = "prepare" /\ HookKind(n - 1) = "SubtitleRemove") =>
              ctx = prev

\* a session with cues and an assigned subtitle stream, cleared by the first
\* application
C18_Witness ==
    /\ Len(log) = 1
    /\ log[1].ev = "prepare"
    /\ HookKind(1) = "SubtitleRemove"
    /\ prev.subtitleStreamIndex = 2
    /\ Len(prev.subtitles.cues) = 2
    /\ ctx.subtitleStreamIndex = NoStream
    /\ ctx.subtitles.cues = <<>>
    /\ SubtitleRemove_prepare(ctx) = ctx

----------------------------------------------------------------------------
\* the pixels of a width x height frame that lie inside the region
RegionPixels(r, width, height) ==
    {p \in Pixels(width, height) : /\ r.x <= p[1] /\ p[1] < r.x + r.width
                                   /\ r.y <= p[2] /\ p[2] < r.y + r.height}

\* the pixels inside some region of the operation
InsideSomeRegion ==
    UNION {RegionPixels(operations_[1].regions[i], avframe.width, avframe.height) :
              i \in DOMAIN operations_[1].regions}

\* C19: with regions that blur, whatever their corner and size (left of or
\* above the frame, negative, larger than the frame), processFrame returns
\* without an exception and every pixel outside the intersection of a region
\* with the frame rectangle [0,cols) x [0,rows) is as the source had it; where
\* no region meets the frame, the whole frame is unchanged.
C19_EditsStayInsideClippedRegion ==
    (log # <<>> /\ \A i \in DOMAIN operations_[1].regions : operations_[1].regions[i].method # "inpaint") =>
        /\ pc # "exit1"
        /\ \A p \in Pixels(avframe.width, avframe.height) :
              p \notin InsideSomeRegion => avframe.data[p] = "source"
        /\ InsideSomeRegion = {} => avframe = AVFrame(avframe.width, avframe.height)

\* a region that starts left of a 2 x 2 frame and is wider and taller than it:
\* the bottom row is blurred, the top row is untouched
C19_Witness ==
    /\ log # <<>>
    /\ pc # "exit1"
    /\ Len(operations_[1].regions) = 1
    /\ operations_[1].regions[1] = [x |-> -1, y |-> 1, width |-> 3, height |-> 3, method |-> "blur"]
    /\ avframe.width = 2 /\ avframe.height = 2
    /\ avframe.data[<<0, 1>>] = "blurred"
    /\ avframe.data[<<1, 1>>] = "blurred"
    /\ avframe.data[<<0, 0>>] = "source"
    /\ avframe.data[<<1, 0>>] = "source"

----------------------------------------------------------------------------
\* C20: when the engine of a job is about to initialize, its session is as
\* default-constructed, whatever the jobs before it did: no stream has a
\* role, the subtitle track has no cues and no language, the generated audio
\* is empty with the default format, no handle is held; and the engine has no
\* operation and has made no call yet.
C20_FreshSessionPerJob ==
    (HasEngine /\ Current("initialize")) =>
        /\ ctx.videoStreamIndex = NoStream
        /\ ctx.audioStreamIndex = NoStream
        /\ ctx.subtitleStreamIndex = NoStream
        /\ ctx.subtitles = [cues |-> <<>>, language |-> ""]
        /\ ctx.generatedVoiceover =
              [bytes |-> 0, sampleRate |-> DefaultSampleRate, channels |-> DefaultChannels]
        /\ ctx.inputFormat = NULL /\ ctx.outputFormat = NULL
        /\ ctx.videoDecoder = NULL /\ ctx.videoEncoder = NULL
        /\ operations_ = <<>>
        /\ log = <<>>

\* the second job of a batch starts after the first one, a voiceover job, has
\* assigned its roles and stored its synthesized audio
C20_Witness ==
    /\ jobIdx = 2
    /\ Current("initialize")
    /\ Len(jobs[1].operations) = 1
    /\ jobs[1].operations[1].type = "voiceover"
    /\ ctx.generatedVoiceover.bytes = 0
    /\ ctx.audioStreamIndex = NoStream

\* the index (from 0) of the first stream of a type in a layout, none if the
\* layout has no stream of the type
FirstOf(layout, t) ==
    LET S == {i \in DOMAIN layout : layout[i] = t}
    IN  IF S = {} THEN NoStream ELSE (CHOOSE i \in S : \A k \in S : i <= k) - 1

\* openInput has returned and no hook has run yet
Opened == HasEngine /\ ctx.inputFormat # NULL /\ log = <<>>

\* C21: after a successful open each of the video, audio and subtitle roles
\* holds the index of the lowest-indexed input stream of its type, or none if
\* the input has no stream of the type: a later stream of a type that has its
\* role never changes the assignment.
C21_RolesFirstSeenWins ==
    Opened =>
        /\ ctx.videoStreamIndex = FirstOf(streams, "video")
        /\ ctx.audioStreamIndex = FirstOf(streams, "audio")
        /\ ctx.subtitleStreamIndex = FirstOf(streams, "subtitle")

C21_Witness ==
    /\ Opened
    /\ streams = <<"data", "video", "video">>
    /\ ctx.videoStreamIndex = 1
    /\ ctx.audioStreamIndex = NoStream

\* the log entries about packet k that are not its read
AboutPacket(k) == {x \in DOMAIN log : log[x].pkt = k /\ log[x].ev \in PacketEvents \ {"read"}}

\* the kinds of those entries, in log order
HandlingOf(k) ==
    LET Is(x) == x.pkt = k /\ x.ev \in PacketEvents \ {"read"}
        s == SelectSeq(log, Is)
    IN  [i \in DOMAIN s |-> s[i].ev]

\* what the chain and the encoder do with a frame
ThroughChain == [i \in 1..(Len(operations_) + 1) |->
                    IF i <= Len(operations_) THEN "processFrame" ELSE "encode"]

\* C22: each packet read is dispatched by the role of its stream.  A packet of
\* the video-role stream goes to the decoder and, decoded, through the chain
\* and to the encoder; it is never copied.  A packet of the audio-role stream
\* is copied to the output and never enters the chain.  A packet of any other
\* stream (the subtitle stream, a second video or audio stream, a stream
\* without a role) is neither routed through the chain nor copied.
C22_DispatchByRole ==
    HasEngine =>
        \A r \in At("read") :
            LET k == log[r].pkt
                si == log[r].stream
            IN  IF si = ctx.videoStreamIndex
                THEN HandlingOf(k) \in {<<"decode">> \o ThroughChain, <<"decodeFailed">>}
                ELSE IF si = ctx.audioStreamIndex
                THEN /\ HandlingOf(k) = <<"copy">>
                     /\ \A x \in AboutPacket(k) : log[x].stream = si
                ELSE HandlingOf(k) = <<>>

C22_Witness ==
    /\ Drained
    /\ streams = <<"video", "audio", "video">>
    /\ Len(operations_) = 2
    /\ \E r \in At("read") : log[r].stream = 0 /\ HandlingOf(log[r].pkt) = <<"decode", "processFrame", "processFrame", "encode">>
    /\ \E r \in At("read") : log[r].stream = 2 /\ HandlingOf(log[r].pkt) = <<>>

\* the reads of the packets of streams that are not video streams
NonVideoReads == {r \in At("read") : streams[log[r].stream + 1] # "video"}

InChain == {"decode", "decodeFailed", "processFrame", "encode"}

EntersChain(k) == \E x \in AboutPacket(k) : log[x].ev \in InChain

Copied(k) == \E x \in AboutPacket(k) : log[x].ev = "copy"

\* C23 as stated: every non-video packet read from the input is passed
\* through to the output, and none of them enters the operation chain.
C23_NonVideoPassedThrough ==
    HasEngine =>
        \A r \in NonVideoReads : Copied(log[r].pkt) /\ ~EntersChain(log[r].pkt)

\* C23: no non-video packet enters the operation chain, and a non-video packet
\* is passed through to the output exactly when its stream holds the audio
\* role: the packets of the subtitle stream, of a second audio stream and of
\* a stream without a role are dropped.
C23_AudioRolePassedThrough ==
    HasEngine =>
        \A r \in NonVideoReads :
            /\ ~EntersChain(log[r].pkt)
            /\ Copied(log[r].pkt) <=> log[r].stream = ctx.audioStreamIndex

C23_Witness ==
    /\ Drained
    /\ streams = <<"audio", "subtitle", "audio">>
    /\ Len(operations_) = 2
    /\ \E r \in NonVideoReads : log[r].stream = 0 /\ Copied(log[r].pkt)
    /\ \E r \in NonVideoReads : log[r].stream = 2 /\ ~Copied(log[r].pkt)

\* the calls of one collaborator function by operation number o, in call order
CallsOf(fn, o) ==
    LET Is(x) == x.fn = fn /\ x.op = o
    IN  SelectSeq(io, Is)

Voiceovers == {o \in DOMAIN operations_ : operations_[o].kind = "VoiceoverReplace"}

LastCalls(fn) ==
    LET Is(x) == x.fn = fn /\ x.op = log[Len(log)].op
        all == SelectSeq(io, Is)
        own == Len(SelectSeq(prepareCalls(operations_[log[Len(log)].op], log[Len(log)].op, prev), Is))
    IN  SubSeq(all, Len(all) - own + 1, Len(all))

\* C25: SubtitleTranslate's prepare reads the subtitle track of the session's
\* subtitle stream through the subtitle collaborator, once, and leaves in the
\* session a track with as many cues in the same order, start_ms and end_ms
\* unchanged, the text of each cue replaced by what the translation
\* collaborator returned for (text, src_lang, dst_lang), and the language tag
\* equal to the destination language.
C25_TranslateRewritesEveryCue ==
    LET n == Len(log)
    IN  (n >= 1 /\ log[n].ev = "prepare" /\ HookKind(n) = "SubtitleTranslate") =>
            LET op == operations_[log[n].op]
                reads == LastCalls("readSubtitles")
                translations == LastCalls("translate")
                read == reads[1].ret
                left == ctx.subtitles
            IN  /\ Len(reads) = 1
                /\ reads[1].args.subtitleStreamIndex = prev.subtitleStreamIndex
                /\ Len(left.cues) = Len(read.cues)
                /\ Len(translations) = Len(read.cues)
                /\ \A i \in DOMAIN read.cues :
                      /\ left.cues[i].start_ms = read.cues[i].start_ms
                      /\ left.cues[i].end_ms = read.cues[i].end_ms
                      /\ translations[i].args = [text |-> read.cues[i].text, src |-> op.srcLang, dst |-> op.dstLang]
                      /\ left.cues[i].text = translations[i].ret
                /\ left.language = op.dstLang

\* a session that holds a translated track already: the track is read again
\* from the stream and the two cues are translated from their source text
C25_Witness ==
    /\ Len(log) = 1
    /\ log[1].ev = "prepare"
    /\ HookKind(1) = "SubtitleTranslate"
    /\ prev.subtitleStreamIndex = 2
    /\ prev.subtitles.language = "uk"
    /\ Len(prev.subtitles.cues) = 2
    /\ ctx.subtitles = [ cues |-> << [start_ms |-> 0, end_ms |-> 2000, text |-> "[uk] Hello"],
                                     [start_ms |-> 2500, end_ms |-> 4000, text |-> "[uk] World"] >>,
                         language |-> "uk" ]

\* the hook applied last is hook e of an operation of kind k
LastHook(e, k) == Len(log) >= 1 /\ log[Len(log)].ev = e /\ HookKind(Len(log)) = k

\* the hook applied last is one its operation does not need
UnneededHook ==
    \/ LastHook("processFrame", "SubtitleTranslate")
    \/ LastHook("processFrame", "SubtitleRemove")
    \/ LastHook("processFrame", "VoiceoverReplace")
    \/ LastHook("finalize", "SubtitleRemove")
    \/ LastHook("finalize", "WatermarkRemove")
    \/ LastHook("prepare", "WatermarkRemove")
    \/ /\ LastHook("processFrame", "WatermarkRemove")
       /\ operations_[log[Len(log)].op].regions = <<>>

\* C26: a hook an operation does not need leaves the session and the frame as
\* they were: process-frame of SubtitleTranslate, SubtitleRemove and
\* VoiceoverReplace, finalize of SubtitleRemove and WatermarkRemove, prepare
\* of WatermarkRemove, and process-frame of a WatermarkRemove without regions.
C26_UnneededHooksAreNoOps ==
    UnneededHook => ctx = prev /\ avframe = prevFrame /\ pc = "running"

\* process-frame of SubtitleRemove on a session with cues, after a frame hook
\* that did write the frame
C26_Witness ==
    /\ Len(log) = 2
    /\ LastHook("processFrame", "SubtitleRemove")
    /\ log[1].ev = "processFrame"
    /\ avframe.data[<<0, 0>>] = "blurred"
    /\ avframe = prevFrame
    /\ Len(ctx.subtitles.cues) = 2
    /\ ctx.subtitleStreamIndex = 2
    /\ ctx = prev

\* the job objects of the document that buildJobFromConfig cannot build
Unbuildable == {i \in DOMAIN Consulted : ~buildJobFromConfig(Consulted[i], options).ok}

\* C27: all jobs of a batch are built before the first one is run.  When some
\* job object of the document cannot be built, the program ends with exit
\* code 1 and no job was started, the well-formed ones before it included;
\* when a job is started, every job object of the document has been built.
C27_AllBuiltBeforeFirstRuns ==
    (BuildDone /\ ConfigDriven) =>
        /\ Unbuildable # {} =>
              /\ pc = "exit1"
              /\ jobIdx = 0
              /\ trace = <<>>
              /\ log = <<>>
              /\ heap = <<>>
        /\ HasEngine =>
              /\ Len(jobs) = Len(Consulted)
              /\ \A i \in DOMAIN Consulted : jobs[i] = buildJobFromConfig(Consulted[i], options).job

\* three job objects, the third with an operation without "type"
C27_Witness ==
    /\ pc = "exit1"
    /\ ConfigDriven
    /\ Len(Consulted) = 3
    /\ Unbuildable = {3}
    /\ calls = <<"buildJobFromConfig", "buildJobFromConfig", "buildJobFromConfig">>
    /\ jobIdx = 0

\* the kind of operation number o of the chain
ChainKind(o) == operations_[o].kind

\* a SubtitleTranslate stands before operation o with no SubtitleRemove between them
TranslatedFor(o) ==
    \E t \in 1..(o - 1) :
        /\ ChainKind(t) = "SubtitleTranslate"
        /\ \A r \in (t + 1)..(o - 1) : ChainKind(r) # "SubtitleRemove"

\* C28: the subtitle track a VoiceoverReplace's prepare passes to the synthesis
\* is non-empty only if the input has a subtitle stream and a SubtitleTranslate
\* precedes the operation in the chain with no SubtitleRemove between the two;
\* in every other chain the synthesis is called with an empty track.
C28_SynthesisTrackNeedsTranslate ==
    HasEngine =>
        \A x \in DOMAIN io :
            (io[x].fn = "synthesize" /\ io[x].args.subs.cues # <<>>) =>
                /\ FirstOf(streams, "subtitle") # NoStream
                /\ TranslatedFor(io[x].op)

\* in [subtitles_translate, voiceover, voiceover] both syntheses get the two
\* translated cues
C28_Witness ==
    /\ pc = "exit0"
    /\ Len(operations_) = 3
    /\ ChainKind(1) = "SubtitleTranslate"
    /\ Voiceovers = {2, 3}
    /\ \A o \in Voiceovers :
          /\ Len(CallsOf("synthesize", o)) = 1
          /\ Len(CallsOf("synthesize", o)[1].args.subs.cues) = 2
          /\ CallsOf("synthesize", o)[1].args.subs.language = "uk"

\* the session as initialize left it: the roles of the input's streams
\* assigned, nothing else written
AsOpened == openOutput(jobIdx, openInput(jobIdx, streams, FreshContext))

Reverse(seq) == [i \in DOMAIN seq |-> seq[Len(seq) + 1 - i]]

\* the session the prepare phase leaves when the chain is taken in reverse order
PreparedReversed == PrepareLoop(Reverse(operations_), 1, [ctx |-> AsOpened, log |-> <<>>]).ctx

Removers == {o \in DOMAIN operations_ : ChainKind(o) = "SubtitleRemove"}
Translators == {o \in DOMAIN operations_ : ChainKind(o) = "SubtitleTranslate"}

\* C29: at the end of the prepare phase of a chain that contains a
\* SubtitleRemove the session has no subtitle stream assigned and no cues,
\* wherever the SubtitleRemove stands relative to the SubtitleTranslate
\* operations; the chains [subtitles_translate, subtitles_remove] and
\* [subtitles_remove, subtitles_translate] leave the same subtitle role, cue
\* list and language tag.
C29_RemoveWinsWhereverItStands ==
    Prepared =>
        /\ Removers # {} =>
              /\ ctx.subtitleStreamIndex = NoStream
              /\ ctx.subtitles.cues = <<>>
        /\ (Len(operations_) = 2 /\ Cardinality(Removers) = 1 /\ Cardinality(Translators) = 1) =>
              /\ ctx.subtitleStreamIndex = PreparedReversed.subtitleStreamIndex
              /\ ctx.subtitles = PreparedReversed.subtitles
              /\ ctx.subtitles.language = "uk"

C29_Witness ==
    /\ Prepared
    /\ sub = "loop"
    /\ Len(operations_) = 2
    /\ ChainKind(1) = "SubtitleRemove"
    /\ ChainKind(2) = "SubtitleTranslate"
    /\ FirstOf(streams, "subtitle") = 2
    /\ ctx.subtitleStreamIndex = NoStream
    /\ ctx.subtitles = [cues |-> <<>>, language |-> "uk"]

\* the job has come to the end of run(): Shutdown and Terminal entered, and the
\* packets av_read_frame returned are packet 1, 2, .. of the input, once each
RanToTerminal ==
    /\ trace = Canonical
    /\ PacketsOf("read") = Iota(nread)
    /\ Cardinality(At("flush")) = 1

\* C30: when every hook and collaborator call returns, a job on a finite
\* input either ends with an error or reaches Shutdown and Terminal, each
\* packet of the input read exactly once: a job that does neither is waiting
\* for a call that does not return.
C30_JobReachesTerminal == HasEngine ~> (pc = "exit1" \/ RanToTerminal)

C30_Witness ==
    /\ pc = "exit0"
    /\ RanToTerminal
    /\ nread = MaxPackets
    /\ Len(operations_) = MaxOps
    /\ \E o \in DOMAIN operations_ : operations_[o].kind = "VoiceoverReplace"

\* the number a run of decimal digits of the returned string stands for
RECURSIVE FieldValue(_, _)
FieldValue(from, to) ==
    IF to < from THEN 0 ELSE 10 * FieldValue(from, to - 1) + DigitValue(timecode[to])

\* 100 hours, in milliseconds
HundredHours == 100 * 3600000

\* C31: for 0 <= ms < 100 hours toString(ms) is HH:MM:SS,mmm, twelve
\* characters, the fields being decimal digits that stand for
\* HH = ms div 3600000, MM = (ms div 60000) mod 60, SS = (ms div 1000) mod 60,
\* mmm = ms mod 1000, zero-padded to 2, 2, 2 and 3 digits.
C31_TimecodeFields ==
    (timecode # <<>> /\ 0 <= millis /\ millis < HundredHours) =>
        /\ Len(timecode) = 12
        /\ timecode[3] = ":" /\ timecode[6] = ":" /\ timecode[9] = ","
        /\ \A i \in (1..12) \ {3, 6, 9} : IsDigit(timecode[i])
        /\ FieldValue(1, 2) = millis \div 3600000
        /\ FieldValue(4, 5) = (millis \div 60000) % 60
        /\ FieldValue(7, 8) = (millis \div 1000) % 60
        /\ FieldValue(10, 12) = millis % 1000

\* the cue end of the workflow test
C31_Witness ==
    /\ millis = 2200
    /\ timecode = <<"0", "0", ":", "0", "0", ":", "0", "2", ",", "2", "0", "0">>

============================================================================
